---- MODULE Spec2Model ----
(***************************************************************************)
(* Delivery pipeline of the error reporting SDK: circuit breaker, rate     *)
(* limiter, offline queue and the two orchestrators (ErrorReporter and     *)
(* EnhancedErrorReporter).  Each component is modelled by pure operators   *)
(* over its fields; the specifications below drive them with overlapping   *)
(* asynchronous callers on the single-threaded event loop.                 *)
(***************************************************************************)
EXTENDS Integers, Sequences, FiniteSets, TLC

\* ------------------------------------------------------------------ bounds
MaxTime == 4
NumCallers == 2
MaxThreshold == 2
MaxResetTimeout == 2
NumDrainers == 2
MaxIds == 2
MaxQueueSize == 2
MaxRetries == 2
MaxFileLen == 2
NumReports == 2
MaxAttempts == 2
MaxBatchSize == 2
MaxEnqueues == 4
MaxAdds == 3

VARIABLES
  now,            \* Date.now()
  cb,             \* CircuitBreaker: state, failureCount, lastFailureTime
  cbOptions,      \* CircuitBreaker.options: failureThreshold, resetTimeout
  calls,          \* one record per overlapping execute() call
  consecFailures, \* history: wrapped calls failed since the last success / reset
  queue,          \* OfflineQueue.queue: references (ids) of the QueuedError objects
  entries,        \* the QueuedError objects: id -> data, timestamp, attempts
  nextId,         \* generateId(): next fresh id
  isProcessing,   \* OfflineQueue.isProcessing
  oqOptions,      \* maxQueueSize, maxRetries, sendFunction set or not
  queueFile,      \* content of the queue file
  diskWritable,   \* whether fs.writeFileSync on the queue file succeeds
  drains,         \* one record per overlapping processQueue()/flush() call
  sent,           \* history: id -> number of times passed to the sender
  evicted,        \* history: ids removed by enqueue overflow or clearQueue
  reporter,       \* which orchestrator is running: ErrorReporter or EnhancedErrorReporter
  config,         \* the orchestrator's switches
  rlOptions,      \* RateLimiter.options
  requests,       \* RateLimiter.requests
  quotaConfig,    \* QuotaManager.config
  quota,          \* QuotaManager counters
  retryConfig,    \* RetryManager.config
  batch,          \* BatchManager: currentBatch, batchTimeout, config, stats
  sending,        \* the flush() calls of the BatchManager that have not returned
  rep,            \* one record per report handed to the orchestrator
  sends,          \* history: the invocations of the BatchManager's send function
  cleared,        \* history: the reports clearCurrentBatch() discarded
  retry,          \* RetryManager: the executeWithRetry / executeHttpRequest call
  recorded,       \* history: the QuotaManager.recordUsage / RateLimiter.recordRequest calls
  dailyResetInterval  \* QuotaManager: when the scheduled daily reset is due

cbVars == <<cb, cbOptions, calls, consecFailures>>
oqVars == <<queue, entries, nextId, isProcessing, oqOptions, queueFile,
            diskWritable, drains,
            sent, evicted>>
\* state of the RetryManager and QuotaManager specifications only
aloneVars == <<retry, recorded, dailyResetInterval>>
repVars == <<reporter, config, rlOptions, requests, quotaConfig, quota, retryConfig,
             batch, sending, rep, sends, cleared, aloneVars>>
vars == <<now, cbVars, oqVars, repVars>>

Callers == 1..NumCallers
Drainers == 1..NumDrainers
Ids == 1..MaxIds
Reports == 1..NumReports
Min(a, b) == IF a < b THEN a ELSE b

\* ---------------------------------------------------------- CircuitBreaker
cbInitial == [state |-> "CLOSED", failureCount |-> 0, lastFailureTime |-> 0]

recordFailure(b, opts, t) ==
  LET fc == b.failureCount + 1 IN
  [state |-> IF fc >= opts.failureThreshold THEN "OPEN" ELSE b.state,
   failureCount |-> fc,
   lastFailureTime |-> t]

\* mutant: the OPEN breaker lets the call through before resetTimeout
executeEntry_noFastFail(b, opts, t) ==
  IF b.state = "OPEN"
  THEN [cb |-> [b EXCEPT !.state = "HALF_OPEN", !.failureCount = 0],
        invoke |-> TRUE, trial |-> TRUE]
  ELSE [cb |-> b, invoke |-> TRUE, trial |-> FALSE]

\* the synchronous head of execute(): the OPEN check, up to the call of fn()
executeEntry(b, opts, t) ==
  IF b.state = "OPEN"
  THEN IF t - b.lastFailureTime >= opts.resetTimeout
       THEN [cb |-> [b EXCEPT !.state = "HALF_OPEN", !.failureCount = 0],
             invoke |-> TRUE, trial |-> TRUE]
       ELSE [cb |-> b, invoke |-> FALSE, trial |-> FALSE]
  ELSE [cb |-> b, invoke |-> TRUE, trial |-> FALSE]

\* the continuation of execute() once Promise.race([fn(), timeout]) settles
executeSettle(b, opts, t, ok) ==
  IF ok
  THEN IF b.state = "HALF_OPEN"
       THEN [b EXCEPT !.state = "CLOSED", !.failureCount = 0]
       ELSE b
  ELSE recordFailure(b, opts, t)

reset(b) == [state |-> "CLOSED", failureCount |-> 0, lastFailureTime |-> 0]

Outcomes == {"ok", "error", "timeout"}

\* the offline queue of a specification that does not use it
OQUnused ==
  /\ queue = <<>> /\ entries = <<>> /\ nextId = 0 /\ isProcessing = FALSE
  /\ oqOptions = <<>> /\ queueFile = <<>> /\ diskWritable = TRUE /\ drains = <<>>
  /\ sent = <<>> /\ evicted = {}

\* a specification that follows no RetryManager call and no QuotaManager timer
AloneUnused == retry = <<>> /\ recorded = <<>> /\ dailyResetInterval = 0

\* the orchestrator of a specification that does not use it
RepUnused ==
  /\ reporter = "none" /\ config = <<>> /\ rlOptions = <<>> /\ requests = <<>>
  /\ quotaConfig = <<>> /\ quota = <<>> /\ retryConfig = <<>> /\ batch = <<>>
  /\ sending = {} /\ rep = <<>> /\ sends = <<>> /\ cleared = {}
  /\ AloneUnused

\* the circuit breaker of a specification that does not use it
CBUnused ==
  /\ cb = cbInitial /\ cbOptions = <<>> /\ calls = <<>> /\ consecFailures = 0

callIdle == [pc |-> "idle", trial |-> FALSE, result |-> "none"]

CBInit ==
  /\ now = 0
  /\ cb = cbInitial
  /\ cbOptions \in [failureThreshold : 1..MaxThreshold, resetTimeout : 1..MaxResetTimeout]
  /\ calls = [c \in Callers |-> callIdle]
  /\ consecFailures = 0
  /\ OQUnused
  /\ RepUnused

Tick ==
  /\ now < MaxTime
  /\ now' = now + 1
  /\ UNCHANGED <<cbVars, oqVars, repVars>>

\* a caller issues circuitBreaker.execute(fn)
Execute(c) ==
  /\ calls[c].pc = "idle"
  /\ LET e == executeEntry(cb, cbOptions, now) IN
     /\ cb' = e.cb
     /\ calls' = [calls EXCEPT ![c] =
          IF e.invoke
          THEN [pc |-> "pending", trial |-> e.trial, result |-> "none"]
          ELSE [pc |-> "done", trial |-> FALSE, result |-> "open"]]
  /\ UNCHANGED <<now, cbOptions, consecFailures, oqVars, repVars>>

\* fn() resolves, rejects, or the timeout promise wins the race
Settle(c, o) ==
  /\ calls[c].pc = "pending"
  /\ cb' = executeSettle(cb, cbOptions, now, o = "ok")
  /\ calls' = [calls EXCEPT ![c] = [@ EXCEPT !.pc = "done", !.result = o]]
  /\ consecFailures' = IF o = "ok" THEN 0 ELSE Min(consecFailures + 1, MaxThreshold + 1)
  /\ UNCHANGED <<now, cbOptions, oqVars, repVars>>

\* the caller has observed the outcome and may call again
Return(c) ==
  /\ calls[c].pc = "done"
  /\ calls' = [calls EXCEPT ![c] = callIdle]
  /\ UNCHANGED <<now, cb, cbOptions, consecFailures, oqVars, repVars>>

Reset ==
  /\ cb # cbInitial
  /\ cb' = reset(cb)
  /\ consecFailures' = 0
  /\ UNCHANGED <<now, cbOptions, calls, oqVars, repVars>>

CBNext ==
  \/ Tick
  \/ \E c \in Callers : Execute(c)
  \/ \E c \in Callers, o \in Outcomes : Settle(c, o)
  \/ \E c \in Callers : Return(c)
  \/ Reset

SpecCB == CBInit /\ [][CBNext]_vars

\* ------------------------------------------------- CircuitBreaker claims
\* the step in which caller c issues execute()
Issues(c) == calls[c].pc = "idle" /\ calls'[c].pc # "idle"
\* the step in which the wrapped call of c settles
Settles(c) == calls[c].pc = "pending" /\ calls'[c].pc = "done"
FastFailing == cb.state = "OPEN" /\ now - cb.lastFailureTime < cbOptions.resetTimeout

\* C5: while the breaker is OPEN and less than resetTimeout has elapsed since
\* lastFailureTime, execute rejects with 'Circuit breaker is OPEN', does not
\* invoke the wrapped function and leaves state, failureCount and
\* lastFailureTime unchanged.
C5_FastFail ==
  [][\A c \in Callers :
       (Issues(c) /\ FastFailing) =>
         /\ calls'[c].pc = "done"
         /\ calls'[c].result = "open"
         /\ cb' = cb]_vars

C5_Witness ==
  \E c \in Callers : calls[c].result = "open" /\ FastFailing

\* C6: starting from CLOSED the breaker becomes OPEN exactly when
\* failureThreshold wrapped calls have failed consecutively; a success while
\* CLOSED restarts the count.
C6_OpensExactlyOnConsecutiveFailures ==
  [][cb.state = "CLOSED" =>
       ((cb'.state = "OPEN") <=>
          (consecFailures' > consecFailures
             /\ consecFailures' >= cbOptions.failureThreshold))]_vars

\* C7: when the HALF_OPEN trial call fails the breaker is OPEN again
\* immediately afterwards, for every failureThreshold >= 1.
C7_FailedTrialReopens ==
  [][\A c \in Callers :
       (Settles(c) /\ calls[c].trial /\ calls'[c].result # "ok")
         => cb'.state = "OPEN"]_vars

\* C8: a successful HALF_OPEN trial leaves the breaker CLOSED with
\* failureCount = 0; every transition into CLOSED has failureCount = 0; OPEN
\* is only entered with failureCount >= failureThreshold.
C8_TrialSuccessCloses ==
  [][/\ \A c \in Callers :
          (Settles(c) /\ calls[c].trial /\ calls'[c].result = "ok")
            => (cb'.state = "CLOSED" /\ cb'.failureCount = 0)
     /\ (cb.state # "CLOSED" /\ cb'.state = "CLOSED") => cb'.failureCount = 0
     /\ (cb.state # "OPEN" /\ cb'.state = "OPEN")
            => cb'.failureCount >= cbOptions.failureThreshold]_vars

\* the two invariant parts of C8 on their own
C8_EntryInvariants ==
  [][/\ (cb.state # "CLOSED" /\ cb'.state = "CLOSED") => cb'.failureCount = 0
     /\ (cb.state # "OPEN" /\ cb'.state = "OPEN")
            => cb'.failureCount >= cbOptions.failureThreshold]_vars

\* ------------------------------------------------------------ OfflineQueue
DayMs == 3
drainIdle == [pc |-> "idle", kind |-> "none", items |-> <<>>, idx |-> 0,
              successfulIds |-> {}, sentTo |-> <<>>, results |-> <<>>,
              startAttempts |-> <<>>]

Range(q) == {q[i] : i \in 1..Len(q)}
Without(q, S) == SelectSeq(q, LAMBDA id : id \notin S)

\* mutant: a full queue refuses the new entry instead of evicting the oldest
enqueue_dropsNewest(q, id, opts) ==
  LET q1 == Append(q, id) IN
  IF Len(q1) > opts.maxQueueSize THEN q ELSE q1

\* enqueue(): push, then shift when the length exceeds maxQueueSize
enqueue(q, id, opts) ==
  LET q1 == Append(q, id) IN
  IF Len(q1) > opts.maxQueueSize THEN Tail(q1) ELSE q1

\* mutant: processQueue starts although a drain is in flight
processQueueStarts_noGuard(processing, q) == Len(q) # 0

\* processQueue(): the early return on isProcessing or an empty queue
processQueueStarts(processing, q) == ~(processing \/ Len(q) = 0)

\* flush(): the early return on a missing send function or isProcessing
flushStarts(processing, opts) == ~(~opts.sendFunctionSet \/ processing)

\* mutant: an entry is dropped one failure too late
dropsAfter_late(attempts, opts) == attempts > opts.maxRetries

\* the drop test after attempts++ in processQueue() and flush()
dropsAfter(attempts, opts) == attempts >= opts.maxRetries

\* mutant: loadQueue keeps an entry that is exactly 24 hours old
loadQueue_keepStale(file, t) ==
  IF file.kind # "array" THEN <<>>
  ELSE LET kept == SelectSeq(file.items, LAMBDA e : e.timestamp >= t - DayMs)
       IN [i \in 1..Len(kept) |-> kept[i].id]

\* loadQueue(): a missing file, a file that does not parse or a JSON value
\* that is not an array gives an empty queue; entries older than 24 hours
\* are pruned
loadQueue(file, t) ==
  IF file.kind # "array" THEN <<>>
  ELSE LET kept == SelectSeq(file.items, LAMBDA e : e.timestamp > t - DayMs)
       IN [i \in 1..Len(kept) |-> kept[i].id]

\* loadQueue(), the catch block: JSON.parse threw, onWarning is called
loadQueueWarns(file) == file.kind = "corrupt"

\* JSON.stringify(this.queue)
serialize(q, ents) ==
  [kind |-> "array",
   items |-> [i \in 1..Len(q) |-> [id |-> q[i], data |-> ents[q[i]].data,
                                   timestamp |-> ents[q[i]].timestamp,
                                   attempts |-> ents[q[i]].attempts]]]

\* mutant: saveQueue lets the error of a failed write escape
saveQueue_throws(q, ents, file, writeOk) ==
  [file |-> IF writeOk THEN serialize(q, ents) ELSE file, threw |-> ~writeOk]

\* saveQueue(): the file after the call, and whether the call threw; the
\* error of a failed write is caught and only logged
saveQueue(q, ents, file, writeOk) ==
  [file |-> IF writeOk THEN serialize(q, ents) ELSE file, threw |-> FALSE]

\* the queue files a previous run of the process may have left behind
FileEntries(n) ==
  [1..n -> [timestamp : {0 - DayMs, 0}, attempts : {0}]]
noFile == [kind |-> "missing", items |-> <<>>]
QueueFiles ==
  {noFile, [kind |-> "corrupt", items |-> <<>>], [kind |-> "object", items |-> <<>>]} \cup
  UNION {{[kind |-> "array",
           items |-> [i \in 1..n |-> [id |-> i, data |-> 1,
                                      timestamp |-> f[i].timestamp,
                                      attempts |-> f[i].attempts]]]
          : f \in FileEntries(n)} : n \in 0..MaxFileLen}

\* the QueuedError objects JSON.parse builds from the file
fileObjects(file) ==
  [id \in 1..Len(file.items) |->
     [data |-> file.items[id].data, timestamp |-> file.items[id].timestamp,
      attempts |-> file.items[id].attempts]]

OQInit ==
  /\ now = 0
  /\ oqOptions \in [maxQueueSize : {1, MaxQueueSize}, maxRetries : {1, MaxRetries},
                    sendFunctionSet : BOOLEAN]
  /\ queueFile \in QueueFiles
  /\ diskWritable \in BOOLEAN
  /\ queue = loadQueue(queueFile, now)
  /\ entries = fileObjects(queueFile)
  /\ nextId = Len(queueFile.items) + 1
  /\ isProcessing = FALSE
  /\ drains = [p \in Drainers |-> drainIdle]
  /\ sent = [id \in 1..Len(queueFile.items) |-> 0]
  /\ evicted = {}
  /\ CBUnused
  /\ RepUnused

bump(f, id) == [f EXCEPT ![id] = Min(@ + 1, MaxRetries + 1)]

\* the effect of enqueue(data) / add(data) on the queue and its file
DoEnqueue(d) ==
  LET q1 == enqueue(queue, nextId, oqOptions)
      e1 == (nextId :> [data |-> d, timestamp |-> now, attempts |-> 0]) @@ entries IN
  /\ queue' = q1
  /\ entries' = e1
  /\ sent' = (nextId :> 0) @@ sent
  /\ evicted' = evicted \cup (Range(queue) \ Range(q1))
  /\ queueFile' = saveQueue(q1, e1, queueFile, diskWritable).file
  /\ nextId' = nextId + 1

NoEnqueue == UNCHANGED <<queue, entries, sent, evicted, queueFile, nextId>>

Enqueue ==
  /\ nextId <= MaxIds
  /\ DoEnqueue(nextId)
  /\ UNCHANGED <<now, cbVars, repVars, isProcessing, oqOptions, diskWritable, drains>>

ClearQueue ==
  /\ queue # <<>>
  /\ queue' = <<>>
  /\ evicted' = evicted \cup Range(queue)
  /\ queueFile' = saveQueue(<<>>, entries, queueFile, diskWritable).file
  /\ UNCHANGED <<now, cbVars, repVars, entries, nextId, isProcessing, oqOptions, diskWritable,
                 drains, sent>>

startDrain(k, q, ents) ==
  [pc |-> "awaiting", kind |-> k, items |-> q, idx |-> 1, successfulIds |-> {},
   sentTo |-> <<q[1]>>, results |-> <<>>,
   startAttempts |-> [i \in 1..Len(q) |-> ents[q[i]].attempts]]

\* history: a call that returned at once, and whether a drain was in flight
skipped(processing) ==
  [drainIdle EXCEPT !.kind = IF processing THEN "busy" ELSE "none"]

\* processQueue(sender) up to the first await of sender(...)
processQueueCall(p) ==
  /\ drains[p].pc = "idle"
  /\ IF processQueueStarts(isProcessing, queue)
     THEN /\ isProcessing' = TRUE
          /\ drains' = [drains EXCEPT ![p] = startDrain("processQueue", queue, entries)]
          /\ sent' = bump(sent, queue[1])
     ELSE /\ drains' = [drains EXCEPT ![p] = skipped(isProcessing)]
          /\ UNCHANGED <<isProcessing, sent>>
  /\ UNCHANGED <<queue, entries, nextId, oqOptions, queueFile, diskWritable, evicted>>

ProcessQueue(p) == processQueueCall(p) /\ UNCHANGED <<now, cbVars, repVars>>

\* flush() up to the first await of sendFunction(...)
flushCall(p) ==
  /\ drains[p].pc = "idle"
  /\ IF flushStarts(isProcessing, oqOptions)
     THEN IF Len(queue) = 0
          THEN /\ drains' = [drains EXCEPT ![p] =
                    drainIdle]
               /\ LET sv == saveQueue(queue, entries, queueFile, diskWritable) IN
                    \* isProcessing = false comes after saveQueue()
                    /\ queueFile' = sv.file
                    /\ isProcessing' = sv.threw
               /\ UNCHANGED sent
          ELSE /\ isProcessing' = TRUE
               /\ drains' = [drains EXCEPT ![p] = startDrain("flush", queue, entries)]
               /\ sent' = bump(sent, queue[1])
               /\ UNCHANGED queueFile
     ELSE /\ drains' = [drains EXCEPT ![p] = skipped(isProcessing)]
          /\ UNCHANGED <<isProcessing, sent, queueFile>>
  /\ UNCHANGED <<queue, entries, nextId, oqOptions, diskWritable, evicted>>

Flush(p) == flushCall(p) /\ UNCHANGED <<now, cbVars, repVars>>

\* mutant: the final filter is applied to the copy the loop iterated over
finalFilter_ofCopy(q, items, succ) == Without(items, succ)

\* processQueue(): this.queue = this.queue.filter(item =>
\* !successfulIds.includes(item.id)) after the loop
finalFilter(q, items, succ) == Without(q, succ)

\* the awaited sender settles; the loop body finishes and either the next
\* entry is handed to the sender or the drain ends (filter, saveQueue,
\* isProcessing = false)
senderSettles(p, ok) ==
  /\ drains[p].pc = "awaiting"
  /\ LET d == drains[p]
         id == d.items[d.idx]
         e1 == IF ok THEN entries
               ELSE [entries EXCEPT ![id].attempts = Min(@ + 1, MaxRetries + 1)]
         gone == ok \/ dropsAfter(e1[id].attempts, oqOptions)
         succ == IF gone THEN d.successfulIds \cup {id} ELSE d.successfulIds
         q1 == IF d.kind = "flush" /\ gone THEN Without(queue, {id}) ELSE queue
         last == d.idx = Len(d.items)
         q2 == IF last /\ d.kind = "processQueue" THEN finalFilter(q1, d.items, succ)
               ELSE q1
         res == Append(d.results, ok)
     IN
     /\ entries' = e1
     /\ queue' = q2
     /\ IF last
        THEN /\ drains' = [drains EXCEPT ![p] = drainIdle]
             /\ LET sv == saveQueue(q2, e1, queueFile, diskWritable) IN
                  \* processQueue resets the flag in a finally block,
                  \* flush in the statement after saveQueue()
                  /\ queueFile' = sv.file
                  /\ isProcessing' = (d.kind = "flush" /\ sv.threw)
             /\ UNCHANGED sent
        ELSE /\ drains' = [drains EXCEPT ![p] =
                  [d EXCEPT !.idx = d.idx + 1, !.successfulIds = succ, !.results = res,
                            !.sentTo = Append(d.sentTo, d.items[d.idx + 1])]]
             /\ sent' = bump(sent, d.items[d.idx + 1])
             /\ UNCHANGED <<isProcessing, queueFile>>
  /\ UNCHANGED <<nextId, oqOptions, diskWritable, evicted>>

DrainSettle(p, ok) == senderSettles(p, ok) /\ UNCHANGED <<now, cbVars, repVars>>

OQNext ==
  \/ Enqueue
  \/ ClearQueue
  \/ \E p \in Drainers : ProcessQueue(p)
  \/ \E p \in Drainers : Flush(p)
  \/ \E p \in Drainers, ok \in BOOLEAN : DrainSettle(p, ok)

SpecOQ == OQInit /\ [][OQNext]_vars

\* -------------------------------------------------- OfflineQueue claims
InFlight == {p \in Drainers : drains[p].pc = "awaiting"}
\* the step in which drainer p calls processQueue() or flush()
CallsDrain(p) == drains[p].pc = "idle" /\ drains'[p] # drains[p]
\* the step in which the drain of p ends
EndsDrain(p) == drains[p].pc = "awaiting" /\ drains'[p].pc = "idle"

\* C9: a processQueue()/flush() call made while a drain is in flight returns
\* without invoking the sender and without touching the queue, so at most one
\* drain pass is in flight at any time.
C9_ReentrantSafe ==
  /\ [](Cardinality(InFlight) <= 1)
  /\ [][\A p \in Drainers :
          (CallsDrain(p) /\ InFlight # {}) =>
            /\ drains'[p].pc = "idle"
            /\ drains'[p].kind = "busy"
            /\ sent' = sent /\ queue' = queue /\ entries' = entries
            /\ queueFile' = queueFile]_vars

C9_Witness ==
  \E p, q \in Drainers :
    p # q /\ drains[p].pc = "awaiting" /\ drains[q].kind = "busy"

\* C10: in one drain every entry present at its start is passed to the sender
\* exactly once; a sent entry is removed; a failed entry has attempts + 1 and
\* is removed iff attempts >= maxRetries, else it stays (unless enqueue
\* overflow or clearQueue took it out meanwhile); no entry is ever passed to
\* the sender more than maxRetries times.
C10_DrainStep(p) ==
  LET d == drains[p]
      n == Len(d.items)
      lastOk == entries'[d.items[n]].attempts = entries[d.items[n]].attempts
      ok(i) == IF i < n THEN d.results[i] ELSE lastOk
  IN /\ d.idx = n
     /\ d.sentTo = d.items
     /\ \A i, j \in 1..n : d.items[i] = d.items[j] => i = j
     /\ \A i \in 1..n :
          LET id == d.items[i] IN
          IF ok(i)
          THEN id \notin Range(queue')
          ELSE /\ entries'[id].attempts = d.startAttempts[i] + 1
               /\ id \in Range(queue') <=>
                    (entries'[id].attempts < oqOptions.maxRetries /\ id \notin evicted)

C10_DrainEffect ==
  /\ [](\A id \in DOMAIN sent : sent[id] <= oqOptions.maxRetries)
  /\ [][\A p \in Drainers : EndsDrain(p) => C10_DrainStep(p)]_vars

C10_Witness ==
  \E id, other \in DOMAIN entries :
    /\ oqOptions.maxRetries > 1
    /\ sent[id] = oqOptions.maxRetries
    /\ entries[id].attempts = oqOptions.maxRetries
    /\ id \notin Range(queue) /\ id \notin evicted
    /\ other \in Range(queue) /\ entries[other].attempts = 1
    /\ ~isProcessing

\* ---------------------------------------------------------------------------
\* RateLimiter (src/services/RateLimiter.ts)
\* ---------------------------------------------------------------------------

\* windowMs: one minute, scaled
WindowMs == 2

\* cleanExpiredRequests(): keeps the records younger than the window
cleanExpiredRequests(reqs, t, opts) ==
  SelectSeq(reqs, LAMBDA req : req.timestamp > t - opts.windowMs)

\* the records isAllowed() counts: failures only when skipSuccessful is set
relevantRequests(reqs, opts) ==
  IF opts.skipSuccessful THEN SelectSeq(reqs, LAMBDA req : ~req.successful) ELSE reqs

\* isAllowed() admitting one request more than maxRequests
isAllowed_atMost(reqs, t, opts) ==
  Len(relevantRequests(cleanExpiredRequests(reqs, t, opts), opts)) <= opts.maxRequests

\* isAllowed(), evaluated on the records left by cleanExpiredRequests()
isAllowed(reqs, t, opts) ==
  Len(relevantRequests(cleanExpiredRequests(reqs, t, opts), opts)) < opts.maxRequests

\* recordRequest(successful)
recordRequest(reqs, t, opts, successful) ==
  Append(cleanExpiredRequests(reqs, t, opts), [timestamp |-> t, successful |-> successful])

\* getRemainingRequests()
getRemainingRequests(reqs, t, opts) ==
  LET used == Len(relevantRequests(cleanExpiredRequests(reqs, t, opts), opts))
  IN IF opts.maxRequests - used > 0 THEN opts.maxRequests - used ELSE 0

\* the limiter ErrorReporter constructs
errorReporterRateLimiter(maxRequestsPerMinute) ==
  [maxRequests |-> maxRequestsPerMinute, windowMs |-> WindowMs, skipSuccessful |-> TRUE]

\* the limiter EnhancedErrorReporter constructs: requestsPerMinute || 60, and
\* skipSuccessful keeps the constructor's default
enhancedRateLimiter(requestsPerMinute) ==
  [maxRequests |-> IF requestsPerMinute = 0 THEN 60 ELSE requestsPerMinute,
   windowMs |-> WindowMs, skipSuccessful |-> TRUE]

\* ---------------------------------------------------------------------------
\* QuotaManager (src/services/QuotaManager.ts)
\* ---------------------------------------------------------------------------

getDateKey(t) == t \div DayMs
getMonthKey(t) == t \div (2 * DayMs)

\* the constructor's defaults, the burst window scaled like WindowMs
defaultQuotaConfig ==
  [dailyLimit |-> 1000, monthlyLimit |-> 10000, payloadSizeLimit |-> 512000,
   burstLimit |-> 10, burstWindowMs |-> WindowMs]

quotaInitial(t) ==
  [dailyCount |-> 0, monthlyCount |-> 0, totalBytes |-> 0, burstTimestamps |-> <<>>,
   lastResetDate |-> getDateKey(t), lastResetMonth |-> getMonthKey(t)]

\* cleanupBurstTimestamps keeping a timestamp that is exactly burstWindowMs old
cleanupBurstTimestamps_inclusive(q, cfg, t) ==
  [q EXCEPT !.burstTimestamps = SelectSeq(@, LAMBDA ts : ts >= t - cfg.burstWindowMs)]

cleanupBurstTimestamps(q, cfg, t) ==
  [q EXCEPT !.burstTimestamps = SelectSeq(@, LAMBDA ts : ts > t - cfg.burstWindowMs)]

cleanupOldData(q, cfg, t) ==
  LET q1 == IF getDateKey(t) # q.lastResetDate
            THEN [q EXCEPT !.dailyCount = 0, !.lastResetDate = getDateKey(t)]
            ELSE q
      q2 == IF getMonthKey(t) # q1.lastResetMonth
            THEN [q1 EXCEPT !.monthlyCount = 0, !.totalBytes = 0,
                            !.lastResetMonth = getMonthKey(t)]
            ELSE q1
  IN cleanupBurstTimestamps(q2, cfg, t)

\* canSendError checking the daily limit before the burst limit
canSendError_dailyFirst(q, cfg, t, payloadSize) ==
  LET q1 == cleanupOldData(q, cfg, t) IN
  [quota |-> q1,
   reason |-> IF payloadSize > cfg.payloadSizeLimit THEN "Payload size exceeds limit"
              ELSE IF q1.dailyCount >= cfg.dailyLimit THEN "Daily quota exceeded"
              ELSE IF Len(q1.burstTimestamps) >= cfg.burstLimit THEN "Burst limit exceeded"
              ELSE IF q1.monthlyCount >= cfg.monthlyLimit THEN "Monthly quota exceeded"
              ELSE "allowed"]

\* canSendError(payloadSize): the counters after its cleanup, and the verdict
canSendError(q, cfg, t, payloadSize) ==
  LET q1 == cleanupOldData(q, cfg, t) IN
  [quota |-> q1,
   reason |-> IF payloadSize > cfg.payloadSizeLimit THEN "Payload size exceeds limit"
              ELSE IF Len(q1.burstTimestamps) >= cfg.burstLimit THEN "Burst limit exceeded"
              ELSE IF q1.dailyCount >= cfg.dailyLimit THEN "Daily quota exceeded"
              ELSE IF q1.monthlyCount >= cfg.monthlyLimit THEN "Monthly quota exceeded"
              ELSE "allowed"]

\* mutant: recordUsage counts the usage without a burst timestamp
recordUsage_noTimestamp(q, cfg, t, payloadSize) ==
  LET q1 == cleanupOldData(q, cfg, t) IN
  [q1 EXCEPT !.dailyCount = @ + 1, !.monthlyCount = @ + 1,
             !.totalBytes = @ + payloadSize]

\* recordUsage(payloadSize)
recordUsage(q, cfg, t, payloadSize) ==
  LET q1 == cleanupOldData(q, cfg, t) IN
  [q1 EXCEPT !.dailyCount = @ + 1, !.monthlyCount = @ + 1,
             !.totalBytes = @ + payloadSize,
             !.burstTimestamps = Append(@, t)]

\* ---------------------------------------------------------------------------
\* RetryManager (src/unnamed/part_000)
\* ---------------------------------------------------------------------------

\* An error is the part of its message isRetryableError() looks at: the
\* network code the message includes, and the status after "HTTP ".
networkError == [code |-> "ECONNRESET", http |-> 0]
httpError(status) == [code |-> "none", http |-> status]
breakerOpenError == [code |-> "Circuit breaker is OPEN", http |-> 0]
breakerTimeoutError == [code |-> "Circuit breaker timeout", http |-> 0]

isRetryableError(error) ==
  IF error.code \in {"ECONNRESET", "ENOTFOUND", "ETIMEDOUT", "ECONNREFUSED"} THEN TRUE
  ELSE IF error.http # 0
       THEN IF error.http = 401 \/ error.http = 403 THEN FALSE
            ELSE error.http \in {408, 429, 502, 503, 504}
       ELSE FALSE

\* executeWithCallback with an onRetry that never throws
afterFailedAttempt_retryAll(attempt, error, cfg) ==
  IF attempt >= cfg.maxAttempts THEN "throw" ELSE "sleep"

\* executeWithCallback's catch block, with executeHttpRequest's onRetry: what
\* the loop does after the attempt-th failure
afterFailedAttempt(attempt, error, cfg) ==
  IF attempt >= cfg.maxAttempts THEN "throw"
  ELSE IF ~isRetryableError(error) THEN "throw"
  ELSE "sleep"

\* ---------------------------------------------------------------------------
\* BatchManager (src/unnamed/part_002).  A report in a batch is its id and the
\* size of its JSON text.
\* ---------------------------------------------------------------------------

\* the manager after construction; maxPayloadSize 0 stands for a limit that
\* is not set
batchInitial(size, maxPayload, sendFn) ==
  [currentBatch |-> <<>>, batchTimeout |-> "none", batchSize |-> size,
   maxPayloadSize |-> maxPayload, sendFunctionSet |-> sendFn,
   currentSize |-> 0, totalErrors |-> 0, totalBatches |-> 0]

RECURSIVE sumSizes(_)
sumSizes(b) == IF Len(b) = 0 THEN 0 ELSE Head(b).size + sumSizes(Tail(b))

\* calculateBatchSize(): the bytes of JSON.stringify(batch), the brackets
\* and the commas included
calculateBatchSize(b) == 2 + sumSizes(b) + (IF Len(b) = 0 THEN 0 ELSE Len(b) - 1)

\* calculateItemSize()
calculateItemSize(item) == item.size

\* the loop of sendBatchInChunks() from the i-th report on
RECURSIVE chunkLoop(_, _, _, _, _, _)
\* mutant: the report that does not fit is left out of the chunk it opens
chunkLoop_dropsOverflow(b, i, chunks, currentChunk, currentChunkSize, maxPayload) ==
  IF i > Len(b)
  THEN IF Len(currentChunk) > 0 THEN Append(chunks, currentChunk) ELSE chunks
  ELSE LET errorSize == calculateItemSize(b[i]) IN
       IF currentChunkSize + errorSize > maxPayload /\ Len(currentChunk) > 0
       THEN chunkLoop(b, i + 1, Append(chunks, currentChunk), <<>>, 0, maxPayload)
       ELSE chunkLoop(b, i + 1, chunks, Append(currentChunk, b[i]),
                      currentChunkSize + errorSize, maxPayload)

chunkLoop(b, i, chunks, currentChunk, currentChunkSize, maxPayload) ==
  IF i > Len(b)
  THEN IF Len(currentChunk) > 0 THEN Append(chunks, currentChunk) ELSE chunks
  ELSE LET errorSize == calculateItemSize(b[i]) IN
       IF currentChunkSize + errorSize > maxPayload /\ Len(currentChunk) > 0
       THEN chunkLoop(b, i + 1, Append(chunks, currentChunk), <<b[i]>>, errorSize,
                      maxPayload)
       ELSE chunkLoop(b, i + 1, chunks, Append(currentChunk, b[i]),
                      currentChunkSize + errorSize, maxPayload)

\* flush() up to its first await: the manager afterwards and the chunks it is
\* going to send, none when it returns at once
flush(bm) ==
  IF Len(bm.currentBatch) = 0 \/ ~bm.sendFunctionSet
  THEN [batch |-> bm, chunks |-> <<>>, chunked |-> FALSE]
  ELSE LET batchToSend == bm.currentBatch
           chunked == bm.maxPayloadSize # 0
                      /\ calculateBatchSize(batchToSend) > bm.maxPayloadSize
       IN [batch |-> [bm EXCEPT !.currentBatch = <<>>, !.currentSize = 0,
                                !.batchTimeout = "none"],
           chunks |-> IF chunked
                      THEN chunkLoop(batchToSend, 1, <<>>, <<>>, 0, bm.maxPayloadSize)
                      ELSE <<batchToSend>>,
           chunked |-> chunked]

\* mutant: the batch is flushed one report too late
addToBatch_lateFlush(bm, item) ==
  LET pushed == [bm EXCEPT !.currentBatch = Append(@, item),
                           !.currentSize = Len(bm.currentBatch) + 1,
                           !.totalErrors = @ + 1]
  IN IF Len(pushed.currentBatch) > bm.batchSize
     THEN [batch |-> pushed, flushes |-> TRUE]
     ELSE [batch |-> IF pushed.batchTimeout = "none"
                     THEN [pushed EXCEPT !.batchTimeout = "armed"] ELSE pushed,
           flushes |-> FALSE]

\* addToBatch(errorData) up to its call of flush(): the manager with the
\* report pushed and the timer armed if need be, and whether flush() is called
addToBatch(bm, item) ==
  LET pushed == [bm EXCEPT !.currentBatch = Append(@, item),
                           !.currentSize = Len(bm.currentBatch) + 1,
                           !.totalErrors = @ + 1]
  IN IF Len(pushed.currentBatch) >= bm.batchSize
     THEN [batch |-> pushed, flushes |-> TRUE]
     ELSE [batch |-> IF pushed.batchTimeout = "none"
                     THEN [pushed EXCEPT !.batchTimeout = "armed"] ELSE pushed,
           flushes |-> FALSE]

\* what no step of the BatchManager changes
bmFrame ==
  <<now, cbVars, oqVars, reporter, config, rlOptions, requests, quotaConfig, quota,
    retryConfig, rep, cleared, aloneVars>>

\* an invocation of the send function; error is what it rejected with and
\* flushError what flush() rejected with because of it (0: nothing), the
\* error of the i-th invocation being written i
sendCall(chunk, trigger, chunked) ==
  [batch |-> chunk, trigger |-> trigger, chunked |-> chunked, result |-> "pending",
   error |-> 0, flushError |-> 0]

\* sendBatch()'s catch block logging the error without rethrowing it
sendBatchCatch_swallow(error) == [thrown |-> 0, counted |-> FALSE]

\* sendBatch()'s catch block: the failure goes to the history and the error
\* is rethrown; totalBatches is not touched
sendBatchCatch(error) == [thrown |-> error, counted |-> FALSE]

\* flush() called on manager bm: the swap, and the send function invoked with
\* the first chunk
Flushing(bm, trigger) ==
  LET f == flush(bm) IN
  /\ batch' = f.batch
  /\ IF Len(f.chunks) = 0
     THEN UNCHANGED <<sending, sends>>
     ELSE /\ sends' = Append(sends, sendCall(f.chunks[1], trigger, f.chunked))
          /\ sending' = sending \cup
               {[chunks |-> f.chunks, idx |-> 1, pc |-> "sending", chunked |-> f.chunked,
                 call |-> Len(sends) + 1, trigger |-> trigger]}

\* the flush timer fires: its callback calls flush()
BatchTimerFires ==
  /\ batch.batchTimeout = "armed"
  /\ Flushing([batch EXCEPT !.batchTimeout = "fired"], "timer")
  /\ UNCHANGED bmFrame

\* the send function settles for the chunk in flight of flush call p:
\* sendBatch() counts the batch or rethrows, which ends flush()
FlushSendSettle(p, ok) ==
  /\ p \in sending
  /\ p.pc = "sending"
  /\ LET eff == IF ok THEN [thrown |-> 0, counted |-> TRUE] ELSE sendBatchCatch(p.call)
     IN /\ sends' = [sends EXCEPT ![p.call] =
                       [@ EXCEPT !.result = IF ok THEN "ok" ELSE "failed",
                                 !.error = IF ok THEN 0 ELSE p.call,
                                 !.flushError = eff.thrown]]
        /\ batch' = IF eff.counted THEN [batch EXCEPT !.totalBatches = @ + 1] ELSE batch
        /\ sending' = IF eff.thrown = 0 /\ p.chunked /\ Len(p.chunks) > 1
                      THEN (sending \ {p}) \cup {[p EXCEPT !.pc = "sleeping"]}
                      ELSE sending \ {p}
  /\ UNCHANGED bmFrame

\* the delay between two chunks ends: the next chunk, or the end of flush()
FlushSleepDone(p) ==
  /\ p \in sending
  /\ p.pc = "sleeping"
  /\ IF p.idx < Len(p.chunks)
     THEN /\ sends' = Append(sends, sendCall(p.chunks[p.idx + 1], p.trigger, p.chunked))
          /\ sending' = (sending \ {p}) \cup
               {[p EXCEPT !.idx = @ + 1, !.pc = "sending", !.call = Len(sends) + 1]}
     ELSE /\ sending' = sending \ {p}
          /\ UNCHANGED sends
  /\ UNCHANGED <<bmFrame, batch>>

\* ---------------------------------------------------------------------------
\* The orchestrators: ErrorReporter.captureException -> sendError
\* (src/services/ErrorReporter.ts) and EnhancedErrorReporter.reportError
\* (src/services/EnhancedErrorReporter.ts).  A report r is one call of the
\* entry point; rep[r] follows the call from its synchronous part to the
\* settling of the promise it returned, and counts what the call did.
\* ---------------------------------------------------------------------------

noError == [code |-> "none", http |-> 0]

repNew ==
  [pc |-> "new", path |-> "none", promise |-> "none", attempt |-> 0,
   calls |-> 0, enq |-> 0, rlFail |-> 0, rlOk |-> 0, usage |-> 0, batched |-> 0,
   onError |-> 0, onWarning |-> 0]

\* the ways the transport call of a report can fail once it was issued
TransportErrors == {networkError, httpError(401), breakerTimeoutError}

PayloadSizes == {1, 2}

B(flag) == IF flag THEN 1 ELSE 0

concluded(rec, path, promise) == [rec EXCEPT !.pc = "done", !.path = path, !.promise = promise]

\* sendError's rate-limited branch dropping the report without a warning
sendErrorRateLimited_silent(cfg) ==
  [enqueue |-> cfg.enableOfflineQueue, promise |-> "resolved",
   onWarning |-> B(cfg.enableOfflineQueue), onError |-> 0]

\* sendError, the rate-limited branch: queued when the queue is enabled,
\* dropped otherwise, with one onWarning either way; it returns
sendErrorRateLimited(cfg) ==
  [enqueue |-> cfg.enableOfflineQueue, promise |-> "resolved", onWarning |-> 1,
   onError |-> 0]

sendErrorCatch_rethrow(cfg) ==
  [rlRecord |-> cfg.enableRateLimit, enqueue |-> cfg.enableOfflineQueue,
   promise |-> "rejected", onWarning |-> B(cfg.enableOfflineQueue),
   onError |-> B(~cfg.enableOfflineQueue)]

\* sendError, the catch block: recordRequest(false) when rate limiting is
\* enabled, enqueue and onWarning (or onError alone) and a normal return
sendErrorCatch(cfg) ==
  [rlRecord |-> cfg.enableRateLimit, enqueue |-> cfg.enableOfflineQueue,
   promise |-> "resolved", onWarning |-> B(cfg.enableOfflineQueue),
   onError |-> B(~cfg.enableOfflineQueue)]

reportErrorQuotaRejected_drop == [enqueue |-> FALSE, promise |-> "resolved"]

\* reportError, the quota rejection: offlineQueue.add and return
reportErrorQuotaRejected == [enqueue |-> TRUE, promise |-> "resolved"]

\* reportError, the rate-limited branch: endOperation and return
reportErrorRateLimited == [enqueue |-> FALSE, promise |-> "resolved"]

\* reportError, the catch block: offlineQueue.add and a warning
reportErrorCatch == [rlRecord |-> FALSE, enqueue |-> TRUE, promise |-> "resolved"]

\* the quota configurations explored: the defaults with one limit lowered
QuotaConfigs ==
  { [defaultQuotaConfig EXCEPT !.dailyLimit = 1],
    [defaultQuotaConfig EXCEPT !.burstLimit = 1],
    [defaultQuotaConfig EXCEPT !.payloadSizeLimit = 1] }

\* the queue and breaker parts of an orchestrator's initial state
RepServices ==
  /\ now = 0
  /\ cb = cbInitial
  /\ cbOptions \in [failureThreshold : {1, MaxThreshold}, resetTimeout : {MaxResetTimeout}]
  /\ calls = <<>> /\ consecFailures = 0
  /\ queueFile = noFile /\ diskWritable = TRUE
  /\ queue = <<>> /\ entries = <<>> /\ nextId = 1 /\ sent = <<>> /\ evicted = {}
  /\ isProcessing = FALSE /\ drains = [p \in Drainers |-> drainIdle]
  /\ requests = <<>> /\ sending = {} /\ sends = <<>> /\ cleared = {}
  /\ rep = [r \in Reports |-> repNew]
  /\ AloneUnused

ErrorReporterInit ==
  /\ reporter = "ErrorReporter"
  /\ config \in [enableRateLimit : BOOLEAN, enableOfflineQueue : BOOLEAN,
                 enableCircuitBreaker : BOOLEAN, quota : {FALSE}, retry : {FALSE},
                 batch : {FALSE}]
  /\ rlOptions \in {errorReporterRateLimiter(rpm) : rpm \in {1, 2}}
  /\ oqOptions = [maxQueueSize |-> MaxQueueSize, maxRetries |-> MaxRetries,
                  sendFunctionSet |-> FALSE]
  /\ quotaConfig = defaultQuotaConfig /\ quota = quotaInitial(0)
  /\ retryConfig = [maxAttempts |-> 1]
  /\ batch = batchInitial(1, 0, FALSE)

EnhancedErrorReporterInit ==
  /\ reporter = "EnhancedErrorReporter"
  /\ config \in {c \in [enableRateLimit : {TRUE}, enableOfflineQueue : {TRUE},
                        enableCircuitBreaker : {TRUE}, quota : BOOLEAN, retry : BOOLEAN,
                        batch : BOOLEAN] : ~(c.retry /\ c.batch)}
  /\ rlOptions \in {enhancedRateLimiter(rpm) : rpm \in {0 - 1, 0}}
  /\ oqOptions = [maxQueueSize |-> MaxQueueSize, maxRetries |-> MaxRetries,
                  sendFunctionSet |-> TRUE]
  /\ quotaConfig \in (IF config.quota THEN QuotaConfigs ELSE {defaultQuotaConfig})
  /\ quota = quotaInitial(0)
  /\ retryConfig \in (IF config.retry THEN [maxAttempts : {1, MaxAttempts}]
                      ELSE {[maxAttempts |-> 1]})
  /\ batch \in (IF config.batch THEN {batchInitial(n, 0, TRUE) : n \in {1, MaxBatchSize}}
                ELSE {batchInitial(1, 0, FALSE)})

RepInit == RepServices /\ (ErrorReporterInit \/ EnhancedErrorReporterInit)

\* what no step of an orchestrator changes
repFrame ==
  <<now, cbOptions, calls, consecFailures, isProcessing, oqOptions, diskWritable, drains,
    reporter, config, rlOptions, quotaConfig, retryConfig, cleared, aloneVars>>

EnqueueIf(flag, r) == IF flag THEN DoEnqueue(r) ELSE NoEnqueue

\* report r is the r-th call of the entry point
NextCall(r) == rep[r].pc = "new" /\ \A q \in Reports : q < r => rep[q].pc # "new"

\* time passes; the orchestrators are followed for one reset timeout
RepTick ==
  /\ now < MaxResetTimeout
  /\ now' = now + 1
  /\ UNCHANGED <<cbVars, oqVars, repVars>>

\* ---- ErrorReporter ----

\* sendError's catch block for report r, reqs being the limiter's records
SendErrorFails(r, reqs) ==
  LET eff == sendErrorCatch(config) IN
  /\ requests' = IF eff.rlRecord THEN recordRequest(reqs, now, rlOptions, FALSE) ELSE reqs
  /\ EnqueueIf(eff.enqueue, r)
  /\ rep' = [rep EXCEPT ![r] =
               [concluded(rep[r], "failed", eff.promise) EXCEPT
                  !.enq = @ + B(eff.enqueue), !.rlFail = @ + B(eff.rlRecord),
                  !.onError = @ + eff.onError, !.onWarning = @ + eff.onWarning]]

\* captureException(error) up to the first await of sendError: the rate
\* limiter's verdict, then the breaker's entry and the post
CaptureException(r) ==
  /\ reporter = "ErrorReporter"
  /\ NextCall(r)
  /\ LET reqs1 == IF config.enableRateLimit
                  THEN cleanExpiredRequests(requests, now, rlOptions) ELSE requests
         e == IF config.enableCircuitBreaker THEN executeEntry(cb, cbOptions, now)
              ELSE [cb |-> cb, invoke |-> TRUE, trial |-> FALSE]
     IN IF config.enableRateLimit /\ ~isAllowed(requests, now, rlOptions)
        THEN LET eff == sendErrorRateLimited(config) IN
             /\ requests' = reqs1
             /\ EnqueueIf(eff.enqueue, r)
             /\ rep' = [rep EXCEPT ![r] =
                          [concluded(rep[r], "rateLimited", eff.promise) EXCEPT
                             !.enq = @ + B(eff.enqueue),
                             !.onError = @ + eff.onError,
                             !.onWarning = @ + eff.onWarning]]
             /\ UNCHANGED cb
        ELSE /\ cb' = e.cb
             /\ IF e.invoke
                THEN /\ requests' = reqs1
                     /\ NoEnqueue
                     /\ rep' = [rep EXCEPT ![r] = [@ EXCEPT !.pc = "inflight",
                                                     !.promise = "pending",
                                                     !.calls = @ + 1]]
                ELSE SendErrorFails(r, reqs1)
  /\ UNCHANGED <<repFrame, quota, batch, sending, sends>>

\* the post of report r settles: recordRequest(true), or the catch block
SendSettle(r, o) ==
  /\ reporter = "ErrorReporter"
  /\ rep[r].pc = "inflight"
  /\ cb' = IF config.enableCircuitBreaker
           THEN executeSettle(cb, cbOptions, now, o = noError) ELSE cb
  /\ IF o = noError
     THEN /\ requests' = IF config.enableRateLimit
                         THEN recordRequest(requests, now, rlOptions, TRUE) ELSE requests
          /\ NoEnqueue
          /\ rep' = [rep EXCEPT ![r] =
                       [concluded(rep[r], "sent", "resolved") EXCEPT
                          !.rlOk = @ + B(config.enableRateLimit)]]
     ELSE SendErrorFails(r, requests)
  /\ UNCHANGED <<repFrame, quota, batch, sending, sends>>

\* ---- EnhancedErrorReporter ----

\* sendErrorWithRetry gives up on report r: reportError's catch block
ReportErrorFails(r, reqs, rec) ==
  LET eff == reportErrorCatch IN
  /\ requests' = IF eff.rlRecord THEN recordRequest(reqs, now, rlOptions, FALSE) ELSE reqs
  /\ EnqueueIf(eff.enqueue, r)
  /\ rep' = [rep EXCEPT ![r] =
               [concluded(rec, "failed", eff.promise) EXCEPT
                  !.enq = @ + B(eff.enqueue), !.rlFail = @ + B(eff.rlRecord)]]

\* an attempt of report r failed with error, the breaker being b afterwards:
\* the retry loop sleeps for another attempt or throws
AttemptFailed(r, reqs, rec, b, error) ==
  LET failed == [rec EXCEPT !.attempt = @ + 1]
      next == IF config.retry THEN afterFailedAttempt(failed.attempt, error, retryConfig)
              ELSE "throw"
  IN /\ cb' = b
     /\ IF next = "sleep"
        THEN /\ requests' = reqs
             /\ NoEnqueue
             /\ rep' = [rep EXCEPT ![r] = [failed EXCEPT !.pc = "backoff",
                                                         !.promise = "pending"]]
        ELSE ReportErrorFails(r, reqs, failed)

\* sendViaCircuitBreaker for report r: the breaker's entry, then the post
Attempt(r, reqs, rec) ==
  LET e == executeEntry(cb, cbOptions, now) IN
  IF e.invoke
  THEN /\ cb' = e.cb
       /\ requests' = reqs
       /\ NoEnqueue
       /\ rep' = [rep EXCEPT ![r] = [rec EXCEPT !.pc = "inflight", !.promise = "pending",
                                                !.calls = @ + 1]]
  ELSE AttemptFailed(r, reqs, rec, e.cb, breakerOpenError)

\* reportError(error) up to its first await: quota, rate limiter, then the
\* batch or the first attempt of sendErrorWithRetry
ReportError(r, payloadSize) ==
  /\ reporter = "EnhancedErrorReporter"
  /\ NextCall(r)
  /\ LET qres == IF config.quota THEN canSendError(quota, quotaConfig, now, payloadSize)
                 ELSE [quota |-> quota, reason |-> "allowed"]
     IN IF qres.reason # "allowed"
        THEN LET eff == reportErrorQuotaRejected IN
             /\ quota' = qres.quota
             /\ EnqueueIf(eff.enqueue, r)
             /\ rep' = [rep EXCEPT ![r] =
                          [concluded(rep[r], "quotaRejected", eff.promise) EXCEPT
                             !.enq = @ + B(eff.enqueue)]]
             /\ UNCHANGED <<requests, cb, batch, sending, sends>>
        ELSE LET reqs1 == cleanExpiredRequests(requests, now, rlOptions)
                 rec == [rep[r] EXCEPT !.usage = @ + B(config.quota)]
             IN /\ quota' = IF config.quota
                            THEN recordUsage(qres.quota, quotaConfig, now, payloadSize)
                            ELSE quota
                /\ IF ~isAllowed(requests, now, rlOptions)
                   THEN LET eff == reportErrorRateLimited IN
                        /\ requests' = reqs1
                        /\ EnqueueIf(eff.enqueue, r)
                        /\ rep' = [rep EXCEPT ![r] =
                                     [concluded(rec, "rateLimited", eff.promise) EXCEPT
                                        !.enq = @ + B(eff.enqueue)]]
                        /\ UNCHANGED <<cb, batch, sending, sends>>
                   ELSE IF config.batch
                   THEN LET added == addToBatch(batch, [id |-> r, size |-> payloadSize]) IN
                        /\ IF added.flushes THEN Flushing(added.batch, "size")
                           ELSE batch' = added.batch /\ UNCHANGED <<sending, sends>>
                        /\ requests' = recordRequest(reqs1, now, rlOptions, TRUE)
                        /\ NoEnqueue
                        /\ rep' = [rep EXCEPT ![r] =
                                     [concluded(rec, "batched", "resolved") EXCEPT
                                        !.batched = @ + 1, !.rlOk = @ + 1]]
                        /\ UNCHANGED cb
                   ELSE /\ Attempt(r, reqs1, rec)
                        /\ UNCHANGED <<batch, sending, sends>>
  /\ UNCHANGED repFrame

\* the attempt in flight for report r settles
AttemptSettle(r, o) ==
  /\ reporter = "EnhancedErrorReporter"
  /\ rep[r].pc = "inflight"
  /\ IF o = noError
     THEN /\ cb' = executeSettle(cb, cbOptions, now, TRUE)
          /\ requests' = recordRequest(requests, now, rlOptions, TRUE)
          /\ NoEnqueue
          /\ rep' = [rep EXCEPT ![r] =
                       [concluded(rep[r], "sent", "resolved") EXCEPT !.rlOk = @ + 1]]
     ELSE AttemptFailed(r, requests, rep[r], executeSettle(cb, cbOptions, now, FALSE), o)
  /\ UNCHANGED <<repFrame, quota, batch, sending, sends>>

\* the retry loop's sleep ends: the next attempt
RetrySleepDone(r) ==
  /\ reporter = "EnhancedErrorReporter"
  /\ rep[r].pc = "backoff"
  /\ Attempt(r, requests, rep[r])
  /\ UNCHANGED <<repFrame, quota, batch, sending, sends>>

RepNext ==
  \/ RepTick
  \/ \E r \in Reports : CaptureException(r)
  \/ \E r \in Reports, o \in TransportErrors \cup {noError} : SendSettle(r, o)
  \/ \E r \in Reports, size \in PayloadSizes : ReportError(r, size)
  \/ \E r \in Reports, o \in TransportErrors \cup {noError} : AttemptSettle(r, o)
  \/ \E r \in Reports : RetrySleepDone(r)
  \/ BatchTimerFires
  \/ \E p \in sending, ok \in BOOLEAN : FlushSendSettle(p, ok)

SpecRep == RepInit /\ [][RepNext]_vars

\* the queue holds an entry whose payload is report r
Queued(r, q, ents) == \E id \in Range(q) : ents[id].data = r

\* C1: whatever the admission decision and the transport outcome, the promise
\* returned by captureException / reportError is never rejected (which is also
\* how an async function delivers a synchronous throw): once the call is over
\* the promise is resolved.
C1_NeverRejects ==
  \A r \in DOMAIN rep :
    /\ rep[r].promise # "rejected"
    /\ rep[r].pc = "done" => rep[r].promise = "resolved"

\* a report whose transport call failed after it was issued and one the open
\* breaker refused, both with a resolved promise
C1_Witness ==
  \E r, q \in DOMAIN rep :
    /\ rep[r].path = "failed" /\ rep[r].calls > 0 /\ rep[r].promise = "resolved"
    /\ rep[q].path = "failed" /\ rep[q].calls = 0 /\ rep[q].promise = "resolved"

\* C2: when the transport call of a report finally fails (error, timeout,
\* breaker open, retries exhausted), the queue is enabled and batching is off,
\* the orchestrator has recorded exactly one failed outcome on the rate
\* limiter and has enqueued the report exactly once.
C2_FailureRecordedAndQueued ==
  \A r \in DOMAIN rep :
    (/\ rep[r].pc = "done" /\ rep[r].path = "failed"
     /\ config.enableOfflineQueue /\ config.enableRateLimit /\ ~config.batch)
    => rep[r].rlFail = 1 /\ rep[r].enq = 1

\* C3: a report rejected by canSendError is enqueued, and nothing else
\* happens for it: no batch add, no rate-limiter record, no recordUsage, no
\* transport call, in the rejecting step or afterwards.
C3_QuotaRejectionQueuesAndStops ==
  /\ [](\A r \in DOMAIN rep :
          rep[r].path = "quotaRejected"
          => /\ rep[r].pc = "done" /\ rep[r].enq = 1
             /\ rep[r].batched = 0 /\ rep[r].rlOk = 0 /\ rep[r].rlFail = 0
             /\ rep[r].usage = 0 /\ rep[r].calls = 0)
  /\ [][\A r \in DOMAIN rep :
          (rep[r].pc = "new" /\ rep'[r].path = "quotaRejected")
          => /\ Queued(r, queue', entries') /\ Len(queue') <= Len(queue) + 1
             /\ requests' = requests /\ batch' = batch /\ sending' = sending /\ sends' = sends
             /\ cb' = cb
             /\ quota'.dailyCount <= quota.dailyCount
             /\ quota'.monthlyCount <= quota.monthlyCount
             /\ quota'.totalBytes <= quota.totalBytes
             /\ Len(quota'.burstTimestamps) <= Len(quota.burstTimestamps)]_vars

\* an admitted report used up the quota and a later one was rejected and queued
C3_Witness ==
  \E r, q \in DOMAIN rep :
    /\ rep[q].usage = 1
    /\ rep[r].path = "quotaRejected" /\ rep[r].enq = 1
    /\ Queued(r, queue, entries)

\* C4: a report the rate limiter's isAllowed() rejects is enqueued (by
\* ErrorReporter when the queue is enabled, by EnhancedErrorReporter always)
\* and no transport call is made for it.
C4_RateLimitedQueued ==
  \A r \in DOMAIN rep :
    (rep[r].path = "rateLimited" /\ config.enableOfflineQueue)
    => rep[r].enq = 1 /\ rep[r].calls = 0

\* ---------------------------------------------------------------------------
\* OfflineQueue.enqueue on a queue that starts empty and is never drained
\* ---------------------------------------------------------------------------

Payloads == {1, 2}

EnqInit ==
  /\ now = 0
  /\ oqOptions \in [maxQueueSize : 1..MaxQueueSize, maxRetries : {MaxRetries},
                    sendFunctionSet : {FALSE}]
  /\ queueFile = noFile
  /\ diskWritable \in BOOLEAN
  /\ queue = loadQueue(queueFile, now)
  /\ entries = fileObjects(queueFile)
  /\ nextId = 1
  /\ isProcessing = FALSE
  /\ drains = [p \in Drainers |-> drainIdle]
  /\ sent = <<>>
  /\ evicted = {}
  /\ CBUnused
  /\ RepUnused

\* enqueue(data)
EnqueueData(d) ==
  /\ nextId <= MaxEnqueues
  /\ DoEnqueue(d)
  /\ UNCHANGED <<now, cbVars, repVars, isProcessing, oqOptions, diskWritable, drains>>

EnqNext == \E d \in Payloads : EnqueueData(d)

SpecEnq == EnqInit /\ [][EnqNext]_vars

\* C11: starting from an empty queue, after n enqueues and no drain the queue
\* holds exactly the last min(n, maxQueueSize) reports, in enqueue order (the
\* n-th enqueue creates entry n).
C11_EnqueueFifo ==
  LET n == nextId - 1
      m == Min(n, oqOptions.maxQueueSize)
  IN /\ queue = [i \in 1..m |-> n - m + i]
     /\ \A i \in 1..m : entries[queue[i]].attempts = 0

\* more enqueues than the queue can hold: the oldest two entries are gone
C11_Witness ==
  /\ nextId - 1 >= oqOptions.maxQueueSize + 2
  /\ Len(queue) = oqOptions.maxQueueSize
  /\ queue[1] = 3
  /\ evicted = {1, 2}

\* ---------------------------------------------------------------------------
\* BatchManager on its own: adds, the flush timer, manual flushes,
\* clearCurrentBatch and the settling of sends, in every interleaving
\* ---------------------------------------------------------------------------

\* the sizes of the reports' JSON texts and the payload limit, scaled
ItemSizes == {2, 4}
PayloadLimits == {0, 6}

BMInit ==
  /\ now = 0
  /\ CBUnused
  /\ OQUnused
  /\ reporter = "none" /\ config = <<>> /\ rlOptions = <<>> /\ requests = <<>>
  /\ quotaConfig = <<>> /\ quota = <<>> /\ retryConfig = <<>> /\ rep = <<>>
  /\ batch \in {batchInitial(n, m, f) :
                  n \in 1..MaxBatchSize, m \in PayloadLimits, f \in BOOLEAN}
  /\ sending = {}
  /\ sends = <<>>
  /\ cleared = {}
  /\ AloneUnused

\* addToBatch(errorData), the call of flush() included
AddToBatch(size) ==
  /\ batch.totalErrors < MaxAdds
  /\ LET added == addToBatch(batch, [id |-> batch.totalErrors + 1, size |-> size]) IN
     IF added.flushes THEN Flushing(added.batch, "size")
     ELSE batch' = added.batch /\ UNCHANGED <<sending, sends>>
  /\ UNCHANGED bmFrame

\* flush() called by the application
ManualFlush ==
  /\ Flushing(batch, "manual")
  /\ UNCHANGED bmFrame

\* clearCurrentBatch()
ClearCurrentBatch ==
  /\ batch.currentBatch # <<>> \/ batch.batchTimeout # "none"
  /\ batch' = [batch EXCEPT !.currentBatch = <<>>, !.currentSize = 0,
                            !.batchTimeout = "none"]
  /\ cleared' = cleared \cup {batch.currentBatch[i].id : i \in 1..Len(batch.currentBatch)}
  /\ UNCHANGED <<now, cbVars, oqVars, reporter, config, rlOptions, requests, quotaConfig,
                 quota, retryConfig, rep, sending, sends, aloneVars>>

BMNext ==
  \/ \E size \in ItemSizes : AddToBatch(size)
  \/ ManualFlush
  \/ ClearCurrentBatch
  \/ BatchTimerFires
  \/ \E p \in sending, ok \in BOOLEAN : FlushSendSettle(p, ok)
  \/ \E p \in sending : FlushSleepDone(p)

SpecBM == BMInit /\ [][BMNext]_vars

\* -------------------------------------------------- BatchManager claims
\* the step is an addToBatch call
AddStep == batch'.totalErrors = batch.totalErrors + 1

\* the add of this step fills the batch, a send function being set
FillingAdd ==
  AddStep /\ batch.sendFunctionSet /\ Len(batch.currentBatch) + 1 >= batch.batchSize

\* the filling add starts exactly one send, with the whole batch in insertion
\* order, cancels the timer and leaves currentBatch empty
OneSendOfFullBatch ==
  /\ Len(sends') = Len(sends) + 1
  /\ SubSeq(sends', 1, Len(sends)) = sends
  /\ LET sentBatch == sends'[Len(sends')].batch IN
     /\ sends'[Len(sends')].trigger = "size"
     /\ Len(sentBatch) = Len(batch.currentBatch) + 1
     /\ SubSeq(sentBatch, 1, Len(batch.currentBatch)) = batch.currentBatch
     /\ sentBatch[Len(sentBatch)].id = batch'.totalErrors
  /\ batch'.batchTimeout = "none"
  /\ batch'.currentBatch = <<>>
  /\ batch'.currentSize = 0

\* the number of reports handed to the send function so far
RECURSIVE sentCount(_)
sentCount(calls_) ==
  IF Len(calls_) = 0 THEN 0 ELSE Len(Head(calls_).batch) + sentCount(Tail(calls_))

\* every report that left currentBatch left it in a size-triggered flush that
\* was sent in one piece: no timer or manual flush, no clear, no split
OnlySizeFlushes ==
  /\ \A i \in 1..Len(sends) : sends[i].trigger = "size" /\ ~sends[i].chunked
  /\ batch.totalErrors = Len(batch.currentBatch) + sentCount(sends)

\* after k * batchSize + r adds: k sends, currentSize = r
CountsAfterAdds ==
  /\ Len(sends) = batch.totalErrors \div batch.batchSize
  /\ batch.currentSize = batch.totalErrors % batch.batchSize
  /\ Len(batch.currentBatch) = batch.currentSize

\* C12 as stated: every add that brings currentBatch to batchSize starts
\* exactly one send with those batchSize reports, and after k * batchSize + r
\* adds there are k size-triggered sends and currentSize = r.
C12_Original ==
  /\ [][FillingAdd => OneSendOfFullBatch]_vars
  /\ [](batch.sendFunctionSet
        => /\ Cardinality({i \in 1..Len(sends) : sends[i].trigger = "size"})
                = batch.totalErrors \div batch.batchSize
           /\ batch.currentSize = batch.totalErrors % batch.batchSize)

\* C12 (amended): the same, for a batch whose serialized size does not exceed
\* maxPayloadSize (a larger one is split and sent chunk by chunk), and, for
\* the counts, as long as no timer flush, manual flush or clearCurrentBatch
\* has taken reports out of currentBatch.
C12_SizeTriggeredFlush ==
  /\ [][(FillingAdd /\ (batch.maxPayloadSize = 0 \/ ~sends'[Len(sends')].chunked))
        => OneSendOfFullBatch]_vars
  /\ []((batch.sendFunctionSet /\ OnlySizeFlushes) => CountsAfterAdds)

\* one full batch of several reports was sent and one more report is waiting
C12_Witness ==
  /\ batch.sendFunctionSet /\ OnlySizeFlushes
  /\ batch.batchSize > 1
  /\ batch.totalErrors = batch.batchSize + 1
  /\ Len(sends) = 1 /\ Len(sends[1].batch) = batch.batchSize
  /\ batch.currentSize = 1 /\ batch.batchTimeout = "armed"

\* the ids of the reports of a batch
idsOf(b) == {b[i].id : i \in 1..Len(b)}

\* the send function calls that received report id
sendsWith(id) == {i \in 1..Len(sends) : id \in idsOf(sends[i].batch)}

\* report id is in a chunk that a running sendBatchInChunks has still to send
awaitsChunk(id) ==
  \E p \in sending : \E i \in (p.idx + 1)..Len(p.chunks) : id \in idsOf(p.chunks[i])

\* no report is handed to the send function twice, in one batch or in two
C13_NeverInTwoSends ==
  /\ \A id \in 1..batch.totalErrors : Cardinality(sendsWith(id)) <= 1
  /\ \A i \in 1..Len(sends) :
       Cardinality(idsOf(sends[i].batch)) = Len(sends[i].batch)

\* C13: across adds, size, timer and manual flushes, every added report that
\* clearCurrentBatch did not discard is in exactly one place: waiting in
\* currentBatch, handed to the send function in exactly one batch, or in a
\* chunk that the running flush is about to hand over.
C13_EachReportSentOnce ==
  \A id \in (1..batch.totalErrors) \ cleared :
    /\ Cardinality(sendsWith(id)) <= 1
    /\ (id \in idsOf(batch.currentBatch)) => sendsWith(id) = {}
    /\ \/ id \in idsOf(batch.currentBatch)
       \/ sendsWith(id) # {}
       \/ awaitsChunk(id)

\* the send of call i fails in this step
BatchSendFails(i) == sends[i].result = "pending" /\ sends'[i].result = "failed"

\* C14: with batching enabled in EnhancedErrorReporter, when the send of a
\* flushed batch fails, every report of that batch is in the offline queue
\* once the failure has been handled.
C14_FailedBatchQueued ==
  [][\A i \in 1..Len(sends) :
       (reporter = "EnhancedErrorReporter" /\ BatchSendFails(i))
         => \A id \in idsOf(sends[i].batch) : Queued(id, queue', entries')]_vars

\* ---------------------------------------------------------------------------
\* RetryManager alone: one executeWithRetry(operation) or
\* executeHttpRequest(operation, isRetryableError) call, whose operation
\* settles with any outcome at each invocation.
\* ---------------------------------------------------------------------------

\* the largest maxAttempts followed
MaxRetryAttempts == 3

RECURSIVE pow(_, _)
pow(base, e) == IF e <= 0 THEN 1 ELSE base * pow(base, e - 1)

\* calculateDelay(attempt): the values Math.floor can return; with jitter the
\* factor 0.5 + Math.random() * 0.5 takes any value from 0.5 to 1
calculateDelay(cfg, attempt) ==
  LET raw == cfg.delay * pow(cfg.exponentialBase, attempt - 1)
      capped == IF cfg.maxDelay # 0 THEN Min(raw, cfg.maxDelay) ELSE raw
  IN IF cfg.jitter THEN (capped \div 2)..capped ELSE {capped}

\* executeWithRetry's catch block with one attempt more than configured
executeWithRetryCatch_extraAttempt(attempt, cfg) ==
  IF attempt > cfg.maxAttempts THEN "throw" ELSE "sleep"

\* executeWithRetry's catch block: what the loop does after the attempt-th
\* failure
executeWithRetryCatch(attempt, cfg) ==
  IF attempt >= cfg.maxAttempts THEN "throw" ELSE "sleep"

\* the errors an operation rejects with: two retryable ones and one that is not
RetryErrors == {networkError, httpError(503), httpError(401)}

\* delays in ms; 1000, 2, 30000 are the constructor's defaults
RetryConfigs ==
  {c \in [maxAttempts : 0..MaxRetryAttempts, delay : {1, 3, 1000},
          exponentialBase : {1, 2}, maxDelay : {0, 4, 30000}, jitter : BOOLEAN] :
     c.jitter => c.delay <= 3}

retryIdle ==
  [method |-> "none", pc |-> "idle", attempt |-> 0, invocations |-> <<>>,
   delays |-> <<>>, thrown |-> "none", result |-> 0]

RMInit ==
  /\ now = 0
  /\ CBUnused
  /\ OQUnused
  /\ reporter = "none" /\ config = <<>> /\ rlOptions = <<>> /\ requests = <<>>
  /\ quotaConfig = <<>> /\ quota = <<>> /\ batch = <<>>
  /\ sending = {} /\ rep = <<>> /\ sends = <<>> /\ cleared = {}
  /\ recorded = <<>> /\ dailyResetInterval = 0
  /\ retryConfig \in RetryConfigs
  /\ retry = retryIdle

rmFrame ==
  <<now, cbVars, oqVars, reporter, config, rlOptions, requests, quotaConfig, quota,
    retryConfig, batch, sending, rep, sends, cleared, recorded, dailyResetInterval>>

\* the call starts: the while loop is entered, or lastError is thrown unset
RetryCall(method) ==
  /\ retry.pc = "idle"
  /\ retry' = IF 0 < retryConfig.maxAttempts
              THEN [retry EXCEPT !.method = method, !.pc = "operation"]
              ELSE [retry EXCEPT !.method = method, !.pc = "rejected",
                                 !.thrown = "undefined"]
  /\ UNCHANGED rmFrame

\* the awaited operation() settles with outcome o
OperationSettles(o) ==
  /\ retry.pc = "operation"
  /\ LET invoked == [retry EXCEPT !.invocations = Append(@, o)] IN
     IF o = noError
     THEN retry' = [invoked EXCEPT !.pc = "resolved", !.result = Len(invoked.invocations)]
     ELSE LET attempt == retry.attempt + 1
              next == IF retry.method = "executeHttpRequest"
                      THEN afterFailedAttempt(attempt, o, retryConfig)
                      ELSE executeWithRetryCatch(attempt, retryConfig)
          IN IF next = "throw"
             THEN retry' = [invoked EXCEPT !.attempt = attempt, !.pc = "rejected",
                                           !.thrown = o]
             ELSE \E delay \in calculateDelay(retryConfig, attempt) :
                    retry' = [invoked EXCEPT !.attempt = attempt, !.pc = "sleeping",
                                             !.delays = Append(@, delay)]
  /\ UNCHANGED rmFrame

\* the sleep ends and the loop invokes the operation again
RetrySleepEnds ==
  /\ retry.pc = "sleeping"
  /\ retry' = [retry EXCEPT !.pc = "operation"]
  /\ UNCHANGED rmFrame

RMNext ==
  \/ \E method \in {"executeWithRetry", "executeHttpRequest"} : RetryCall(method)
  \/ \E o \in RetryErrors \cup {noError} : OperationSettles(o)
  \/ RetrySleepEnds

SpecRM == RMInit /\ [][RMNext]_vars

\* C15: executeWithRetry invokes the operation at most maxAttempts times, makes
\* no invocation after a success and resolves with that attempt's result; when
\* all maxAttempts attempts fail it rejects with the error of the last one.
C15_RetryBounded ==
  retry.method = "executeWithRetry" =>
    LET n == Len(retry.invocations) IN
    /\ n <= retryConfig.maxAttempts
    /\ \A i \in 1..(n - 1) : retry.invocations[i] # noError
    /\ retry.pc = "resolved" => (retry.invocations[n] = noError /\ retry.result = n)
    /\ (n > 0 /\ retry.invocations[n] = noError) => retry.pc = "resolved"
    /\ (retry.pc = "rejected" /\ retryConfig.maxAttempts > 0)
         => (n = retryConfig.maxAttempts /\ retry.thrown = retry.invocations[n])

\* all three attempts failed, the last one with another error than the first
C15_Witness ==
  /\ retry.method = "executeWithRetry" /\ retry.pc = "rejected"
  /\ retryConfig.maxAttempts = 3 /\ Len(retry.invocations) = 3
  /\ retry.invocations[1] = httpError(401)
  /\ retry.invocations[3] = networkError
  /\ retry.thrown = networkError

\* C16: in executeHttpRequest an attempt that fails with a non-retryable error
\* is the last one, and the call rejects with that error.
C16_NonRetryableAborts ==
  retry.method = "executeHttpRequest" =>
    \A i \in 1..Len(retry.invocations) :
      (retry.invocations[i] # noError /\ ~isRetryableError(retry.invocations[i]))
        => /\ i = Len(retry.invocations)
           /\ retry.pc = "rejected"
           /\ retry.thrown = retry.invocations[i]

\* a non-retryable first failure with attempts remaining: one invocation
C16_Witness ==
  /\ retry.method = "executeHttpRequest" /\ retry.pc = "rejected"
  /\ retryConfig.maxAttempts = 3
  /\ retry.invocations = <<httpError(401)>>
  /\ retry.thrown = httpError(401)

\* the delay the claim gives before attempt n
statedDelay(n) ==
  Min(retryConfig.delay * pow(retryConfig.exponentialBase, n - 2), retryConfig.maxDelay)

\* C17: without jitter the delay before attempt n (n >= 2) is exactly
\* min(delay * exponentialBase^(n-2), maxDelay), so [1000, 2000] for
\* maxAttempts 3, delay 1000, exponentialBase 2; with jitter it lies between
\* 50% and 100% of that value.
C17_BackoffDelays ==
  /\ \A n \in 2..(Len(retry.delays) + 1) :
       IF retryConfig.jitter
       THEN /\ 2 * retry.delays[n - 1] >= statedDelay(n)
            /\ retry.delays[n - 1] <= statedDelay(n)
       ELSE retry.delays[n - 1] = statedDelay(n)
  /\ (/\ retryConfig = [maxAttempts |-> 3, delay |-> 1000, exponentialBase |-> 2,
                        maxDelay |-> 30000, jitter |-> FALSE]
      /\ Len(retry.delays) = 2) => retry.delays = <<1000, 2000>>

\* ---------------------------------------------------------------------------
\* QuotaManager alone (src/services/QuotaManager.ts): canSendError,
\* recordUsage and getStats calls, the passage of time and the scheduled daily
\* reset.  The local time zone is UTC, so that getDateKey's day (toISOString)
\* and the timer's midnight (setHours) change at the same instant.
\* ---------------------------------------------------------------------------

\* how long the QuotaManager is followed, and how many usages are recorded
MaxQuotaTime == 6
MaxUsages == 3

\* limits low enough to be reached, and the defaults' order of magnitude
QMConfigs ==
  [dailyLimit : {1, 2}, monthlyLimit : {2, 3}, payloadSizeLimit : {1},
   burstLimit : {1, 2}, burstWindowMs : {1, WindowMs}]

\* scheduleDailyReset(): the next midnight after t
nextMidnight(t) == (t \div DayMs + 1) * DayMs

QMInit ==
  /\ now = 0
  /\ CBUnused
  /\ OQUnused
  /\ reporter = "none" /\ config = <<>> /\ rlOptions = <<>> /\ requests = <<>>
  /\ retryConfig = <<>> /\ batch = <<>>
  /\ sending = {} /\ rep = <<>> /\ sends = <<>> /\ cleared = {}
  /\ retry = <<>>
  /\ quotaConfig \in QMConfigs
  /\ quota = quotaInitial(now)
  /\ recorded = <<>>
  /\ dailyResetInterval = nextMidnight(now)

qmFrame ==
  <<cbVars, oqVars, reporter, config, rlOptions, requests, quotaConfig, retryConfig,
    batch, sending, rep, sends, cleared, retry>>

\* time passes; a due timer fires before the clock moves on
QMTick ==
  /\ now < MaxQuotaTime
  /\ now < dailyResetInterval
  /\ now' = now + 1
  /\ UNCHANGED <<qmFrame, quota, recorded, dailyResetInterval>>

CanSendError(payloadSize) ==
  /\ quota' = canSendError(quota, quotaConfig, now, payloadSize).quota
  /\ UNCHANGED <<qmFrame, now, recorded, dailyResetInterval>>

RecordUsage(payloadSize) ==
  /\ Len(recorded) < MaxUsages
  /\ quota' = recordUsage(quota, quotaConfig, now, payloadSize)
  /\ recorded' = Append(recorded, now)
  /\ UNCHANGED <<qmFrame, now, dailyResetInterval>>

GetStats ==
  /\ quota' = cleanupOldData(quota, quotaConfig, now)
  /\ UNCHANGED <<qmFrame, now, recorded, dailyResetInterval>>

\* the setTimeout callback of scheduleDailyReset()
DailyResetFires ==
  /\ now >= dailyResetInterval
  /\ quota' = [quota EXCEPT !.dailyCount = 0, !.lastResetDate = getDateKey(now)]
  /\ dailyResetInterval' = nextMidnight(now)
  /\ UNCHANGED <<qmFrame, now, recorded>>

QMNext ==
  \/ QMTick
  \/ \E payloadSize \in 0..2 : CanSendError(payloadSize)
  \/ \E payloadSize \in 0..2 : RecordUsage(payloadSize)
  \/ GetStats
  \/ DailyResetFires

SpecQM == QMInit /\ [][QMNext]_vars

\* the recorded usages whose timestamp is within the last burstWindowMs
inBurstWindow ==
  Cardinality({i \in 1..Len(recorded) : recorded[i] > now - quotaConfig.burstWindowMs})

\* C18: for a payload within the size limit, canSendError answers 'Burst limit
\* exceeded' iff at least burstLimit recorded usages have a timestamp within
\* the last burstWindowMs; once fewer remain in the window, and the daily and
\* monthly quotas are not exhausted, it accepts.
C18_BurstWindow ==
  \A payloadSize \in 0..quotaConfig.payloadSizeLimit :
    LET r == canSendError(quota, quotaConfig, now, payloadSize) IN
    /\ (r.reason = "Burst limit exceeded") <=> (inBurstWindow >= quotaConfig.burstLimit)
    /\ (/\ inBurstWindow < quotaConfig.burstLimit
        /\ r.quota.dailyCount < quotaConfig.dailyLimit
        /\ r.quota.monthlyCount < quotaConfig.monthlyLimit) => r.reason = "allowed"

\* burstLimit usages recorded at the same instant have left the window and
\* canSendError accepts again
C18_Witness ==
  /\ quotaConfig.burstLimit = 2 /\ Len(recorded) = 2
  /\ recorded[1] = recorded[2]
  /\ now = recorded[1] + quotaConfig.burstWindowMs
  /\ inBurstWindow = 0
  /\ canSendError(quota, quotaConfig, now, 0).reason = "allowed"

\* the verdict of the four checks taken in the stated order
firstFailingCheck(payloadSize) ==
  LET q1 == cleanupOldData(quota, quotaConfig, now) IN
  IF payloadSize > quotaConfig.payloadSizeLimit THEN "Payload size exceeds limit"
  ELSE IF inBurstWindow >= quotaConfig.burstLimit THEN "Burst limit exceeded"
  ELSE IF q1.dailyCount >= quotaConfig.dailyLimit THEN "Daily quota exceeded"
  ELSE IF q1.monthlyCount >= quotaConfig.monthlyLimit THEN "Monthly quota exceeded"
  ELSE "allowed"

\* C19: canSendError returns the reason of the first failing check in the
\* order payload size, burst, daily, monthly; it allows iff no check fails,
\* and a payload exactly at the size limit passes the size check.
C19_CheckOrder ==
  \A payloadSize \in 0..2 :
    LET r == canSendError(quota, quotaConfig, now, payloadSize) IN
    /\ r.reason = firstFailingCheck(payloadSize)
    /\ payloadSize = quotaConfig.payloadSizeLimit => r.reason # "Payload size exceeds limit"

\* burst, daily and monthly limits are all reached: an oversized payload is
\* rejected for its size, a payload at the limit for the burst
C19_Witness ==
  /\ inBurstWindow >= quotaConfig.burstLimit
  /\ quota.lastResetDate = getDateKey(now)
  /\ quota.dailyCount >= quotaConfig.dailyLimit
  /\ quota.monthlyCount >= quotaConfig.monthlyLimit
  /\ canSendError(quota, quotaConfig, now, 2).reason = "Payload size exceeds limit"
  /\ canSendError(quota, quotaConfig, now, 1).reason = "Burst limit exceeded"

\* C20: once dailyCount has been reset for the current day, no later reset
\* for the same day boundary erases usage recorded since: while the day does
\* not change, dailyCount does not decrease.
C20_DailyResetOnce ==
  [][(quota.lastResetDate = getDateKey(now) /\ now' = now)
       => quota'.dailyCount >= quota.dailyCount]_vars

\* ---------------------------------------------------------------------------
\* RateLimiter alone (src/services/RateLimiter.ts): isAllowed, recordRequest
\* and getRemainingRequests calls and the passage of time.
\* ---------------------------------------------------------------------------

\* the largest maxRequests, and how many requests are recorded
MaxRequests == 2
MaxRecords == 3

RLInit ==
  /\ now = 0
  /\ CBUnused
  /\ OQUnused
  /\ reporter = "none" /\ config = <<>>
  /\ quotaConfig = <<>> /\ quota = <<>> /\ retryConfig = <<>> /\ batch = <<>>
  /\ sending = {} /\ rep = <<>> /\ sends = <<>> /\ cleared = {}
  /\ retry = <<>> /\ dailyResetInterval = 0
  /\ rlOptions \in [maxRequests : 0..MaxRequests, windowMs : {1, WindowMs},
                    skipSuccessful : BOOLEAN]
  /\ requests = <<>>
  /\ recorded = <<>>

rlFrame ==
  <<cbVars, oqVars, reporter, config, rlOptions, quotaConfig, quota, retryConfig,
    batch, sending, rep, sends, cleared, retry, dailyResetInterval>>

RLTick ==
  /\ now < MaxTime
  /\ now' = now + 1
  /\ UNCHANGED <<rlFrame, requests, recorded>>

\* isAllowed() and getRemainingRequests() purge the expired records
IsAllowed ==
  /\ requests' = cleanExpiredRequests(requests, now, rlOptions)
  /\ UNCHANGED <<rlFrame, now, recorded>>

RecordRequest(successful) ==
  /\ Len(recorded) < MaxRecords
  /\ requests' = recordRequest(requests, now, rlOptions, successful)
  /\ recorded' = Append(recorded, [timestamp |-> now, successful |-> successful])
  /\ UNCHANGED <<rlFrame, now>>

RLNext ==
  \/ RLTick
  \/ IsAllowed
  \/ \E successful \in BOOLEAN : RecordRequest(successful)

SpecRL == RLInit /\ [][RLNext]_vars

\* the recorded requests within the last windowMs that count towards the limit
countingInWindow ==
  Cardinality({i \in 1..Len(recorded) :
                 /\ recorded[i].timestamp > now - rlOptions.windowMs
                 /\ (rlOptions.skipSuccessful => ~recorded[i].successful)})

\* C21: isAllowed() is true iff fewer than maxRequests recorded requests that
\* count towards the limit (failed ones only when skipSuccessful) are within
\* the last windowMs; once windowMs has elapsed after the last recorded
\* request a limiter of at least one request allows again and
\* getRemainingRequests() is maxRequests.
C21_SlidingWindow ==
  /\ isAllowed(requests, now, rlOptions) <=> (countingInWindow < rlOptions.maxRequests)
  /\ (/\ Len(recorded) > 0
      /\ now >= recorded[Len(recorded)].timestamp + rlOptions.windowMs)
       => /\ rlOptions.maxRequests >= 1 => isAllowed(requests, now, rlOptions)
          /\ getRemainingRequests(requests, now, rlOptions) = rlOptions.maxRequests

\* maxRequests failures were recorded at one instant (the limiter rejected
\* then) and windowMs has elapsed since
C21_Witness ==
  /\ rlOptions.maxRequests = 2 /\ Len(recorded) = 2
  /\ ~recorded[1].successful /\ ~recorded[2].successful
  /\ recorded[1].timestamp = recorded[2].timestamp
  /\ now = recorded[2].timestamp + rlOptions.windowMs
  /\ isAllowed(requests, now, rlOptions)
  /\ getRemainingRequests(requests, now, rlOptions) = 2

\* ------------------------------------------- orchestrator claims, continued
\* C22: in EnhancedErrorReporter recordUsage is called for a report only once
\* its transport call has succeeded: a report that is rate-limited or whose
\* delivery fails has not increased the quota counters.
C22_UsageOnlyAfterSuccess ==
  reporter = "EnhancedErrorReporter" =>
    \A r \in DOMAIN rep :
      /\ rep[r].usage > 0 => rep[r].path \in {"sent", "batched"}
      /\ rep[r].path \in {"rateLimited", "failed"} => rep[r].usage = 0

\* the breaker is entered for report r in this step
BreakerConsulted(r) ==
  /\ rep[r].pc \in {"new", "backoff"}
  /\ rep'[r].pc # rep[r].pc
  /\ rep'[r].path \notin {"quotaRejected", "rateLimited", "batched"}

\* C23: for a report sent without batching the breaker wraps the whole retry
\* loop: it is consulted once per report, and a report whose retries are
\* exhausted raises failureCount by exactly 1.
C23_BreakerWrapsRetry ==
  /\ [][\A r \in DOMAIN rep :
          (reporter = "EnhancedErrorReporter" /\ BreakerConsulted(r))
            => rep[r].pc = "new"]_vars
  /\ []((/\ reporter = "EnhancedErrorReporter"
         /\ Len(rep) >= 2 /\ rep[1].path = "failed" /\ rep[2].pc = "new")
          => cb.failureCount <= 1)

\* ---------------------------------------------------------------------------
\* The replay of the offline queue by the orchestrators:
\* ErrorReporter.processOfflineQueue (the 30 s interval and flushQueue) hands
\* offlineQueue.processQueue a sender that posts through the breaker when
\* enableCircuitBreaker is set; EnhancedErrorReporter.flush calls
\* offlineQueue.flush, whose send function is sendErrorData.  The reports
\* arrive as in SpecRep; calls is the sender's call in progress.  One replay
\* runs at a time (overlapping drains are the subject of SpecOQ).
\* ---------------------------------------------------------------------------

\* the sender's call: idle, posting, or rejected by the open breaker; posts
\* counts the posts the replay has issued
replayIdle == [pc |-> "idle", posts |-> 0]

ReplayInit ==
  /\ now = 0
  /\ cb = cbInitial
  /\ cbOptions \in [failureThreshold : {1, MaxThreshold}, resetTimeout : {MaxResetTimeout}]
  /\ calls = replayIdle /\ consecFailures = 0
  /\ queueFile = noFile /\ diskWritable = TRUE
  /\ queue = <<>> /\ entries = <<>> /\ nextId = 1 /\ sent = <<>> /\ evicted = {}
  /\ isProcessing = FALSE /\ drains = [p \in Drainers |-> drainIdle]
  /\ requests = <<>> /\ sending = {} /\ sends = <<>> /\ cleared = {}
  /\ rep = [r \in Reports |-> repNew]
  /\ AloneUnused
  /\ reporter \in {"ErrorReporter", "EnhancedErrorReporter"}
  /\ config \in [enableRateLimit : {TRUE}, enableOfflineQueue : {TRUE},
                 enableCircuitBreaker : IF reporter = "ErrorReporter" THEN BOOLEAN
                                        ELSE {TRUE},
                 quota : {reporter = "EnhancedErrorReporter"}, retry : {FALSE},
                 batch : {FALSE}]
  /\ rlOptions = IF reporter = "ErrorReporter" THEN errorReporterRateLimiter(2)
                 ELSE enhancedRateLimiter(0)
  /\ oqOptions = [maxQueueSize |-> MaxQueueSize, maxRetries |-> MaxRetries,
                  sendFunctionSet |-> reporter = "EnhancedErrorReporter"]
  /\ quotaConfig = defaultQuotaConfig /\ quota = quotaInitial(0)
  /\ retryConfig = [maxAttempts |-> 1]
  /\ batch = batchInitial(1, 0, FALSE)

\* the replay's sender posts through the breaker
replayUsesBreaker == reporter = "ErrorReporter" /\ config.enableCircuitBreaker

\* the sender is invoked for an entry, the breaker being b: execute()'s entry
\* when the sender uses the breaker, then the post
SenderInvoked(b) ==
  LET e == IF replayUsesBreaker THEN executeEntry(b, cbOptions, now)
           ELSE [cb |-> b, invoke |-> TRUE, trial |-> FALSE]
  IN /\ cb' = e.cb
     /\ calls' = [pc |-> IF e.invoke THEN "posting" ELSE "rejected",
                  posts |-> Min(calls.posts + B(e.invoke), 2 * MaxRetries)]

replayFrame ==
  <<now, cbOptions, consecFailures, reporter, config, rlOptions, requests, quotaConfig,
    quota, retryConfig, batch, sending, rep, sends, cleared, aloneVars>>

\* processOfflineQueue() / flush() is called
ReplayStart(p) ==
  /\ drains[p].pc = "idle"
  /\ calls.pc = "idle"
  /\ queue # <<>>
  /\ IF reporter = "ErrorReporter" THEN processQueueCall(p) ELSE flushCall(p)
  /\ IF drains'[p].pc = "awaiting" THEN SenderInvoked(cb) ELSE UNCHANGED <<cb, calls>>
  /\ UNCHANGED replayFrame

\* the sender's promise settles: the breaker records the outcome of a post,
\* the queue handles the entry and hands the next one to the sender
ReplaySettle(p, ok) ==
  /\ drains[p].pc = "awaiting"
  /\ calls.pc = "rejected" => ~ok
  /\ senderSettles(p, ok)
  /\ LET b == IF replayUsesBreaker /\ calls.pc = "posting"
              THEN executeSettle(cb, cbOptions, now, ok) ELSE cb
     IN IF drains'[p].pc = "awaiting" THEN SenderInvoked(b)
        ELSE cb' = b /\ calls' = [calls EXCEPT !.pc = "idle"]
  /\ UNCHANGED replayFrame

ReplayNext ==
  \/ RepTick
  \/ \E r \in Reports : CaptureException(r)
  \/ \E r \in Reports, o \in {networkError, noError} : SendSettle(r, o)
  \/ \E r \in Reports : ReportError(r, 1)
  \/ \E r \in Reports, o \in {networkError, noError} : AttemptSettle(r, o)
  \/ ReplayStart(1)
  \/ \E ok \in BOOLEAN : ReplaySettle(1, ok)

SpecReplay == ReplayInit /\ [][ReplayNext]_vars

\* the step is a step of the replay
ReplayStep == \E p \in Drainers : drains'[p] # drains[p]

\* the breaker is open and resetTimeout has not elapsed: execute() fails fast
fastFailing(b) == b.state = "OPEN" /\ now - b.lastFailureTime < cbOptions.resetTimeout

\* C24: every send of a replay passes through CircuitBreaker.execute, so the
\* replay issues no post while the breaker is OPEN and fast-failing; and a
\* replay neither consults nor updates the quota counters and the rate
\* limiter.
C24_ReplayThroughBreaker ==
  [][ReplayStep =>
       /\ calls'.posts > calls.posts => ~fastFailing(cb')
       /\ quota' = quota
       /\ requests' = requests]_vars

\* C25: ErrorReporter with enableOfflineQueue = false surfaces a report whose
\* transport call failed through exactly one onError call, a rate-limited
\* report through exactly one onWarning call, and enqueues nothing.
C25_DisabledQueueCallbacks ==
  (reporter = "ErrorReporter" /\ ~config.enableOfflineQueue) =>
    /\ queue = <<>> /\ nextId = 1
    /\ \A r \in DOMAIN rep :
         /\ rep[r].path = "failed"
              => (rep[r].onError = 1 /\ rep[r].onWarning = 0 /\ rep[r].enq = 0)
         /\ rep[r].path = "rateLimited"
              => (rep[r].onWarning = 1 /\ rep[r].onError = 0 /\ rep[r].enq = 0)

\* one report failed in the transport and the next one was rate-limited
C25_Witness ==
  /\ reporter = "ErrorReporter" /\ ~config.enableOfflineQueue
  /\ rep[1].path = "failed" /\ rep[1].calls = 1 /\ rep[1].onError = 1
  /\ rep[2].path = "rateLimited" /\ rep[2].onWarning = 1
  /\ queue = <<>>

\* the reports of b are consecutive adds, in the order they were added
contiguous(b) == \A j \in 1..(Len(b) - 1) : b[j + 1].id = b[j].id + 1

\* the chunks handed to the send function are runs of the batch in order
C26_ChunksContiguous == \A i \in 1..Len(sends) : contiguous(sends[i].batch)

\* C26: when a flushed batch exceeds maxPayloadSize, every chunk handed to the
\* send function is a contiguous run of the batch in insertion order whose
\* serialized size does not exceed maxPayloadSize.
C26_ChunksFit ==
  \A i \in 1..Len(sends) :
    sends[i].chunked =>
      /\ contiguous(sends[i].batch)
      /\ calculateBatchSize(sends[i].batch) <= batch.maxPayloadSize

\* C27: when the send function rejects for a batch, flush() rejects with that
\* same error, the batch is handed to the send function only that once,
\* totalBatches counts successful sends only, and the failed reports are not
\* put back, so that later adds and flushes work on a fresh batch.
C27_SendFailurePropagates ==
  /\ batch.totalBatches = Cardinality({i \in 1..Len(sends) : sends[i].result = "ok"})
  /\ \A i \in 1..Len(sends) :
       sends[i].result = "failed" =>
         /\ sends[i].error # 0 /\ sends[i].flushError = sends[i].error
         /\ \A j \in 1..Len(sends) :
              j # i => idsOf(sends[j].batch) \cap idsOf(sends[i].batch) = {}
         /\ idsOf(batch.currentBatch) \cap idsOf(sends[i].batch) = {}

\* a batch failed, and the batch added afterwards was sent and counted
C27_Witness ==
  /\ Len(sends) = 2
  /\ sends[1].result = "failed" /\ sends[1].flushError = 1
  /\ sends[2].result = "ok" /\ ~sends[2].chunked
  /\ \A id \in idsOf(sends[2].batch) : \A old \in idsOf(sends[1].batch) : id > old
  /\ batch.totalBatches = 1

\* ------------------------------------------------ OfflineQueue.loadQueue
\* the positions of the file's entries that are less than 24 hours old at t
youngerThanADay(file, t) ==
  {i \in 1..Len(file.items) : t - file.items[i].timestamp < DayMs}

\* the state the constructor leaves behind
LoadedAtConstruction ==
  /\ queueFile.kind = "array" =>
        /\ Range(queue) = {queueFile.items[i].id : i \in youngerThanADay(queueFile, now)}
        /\ \A i, j \in 1..Len(queue) : i < j => queue[i] < queue[j]
        /\ \A i \in 1..Len(queue) :
             entries[queue[i]].timestamp = queueFile.items[queue[i]].timestamp
  /\ queueFile.kind # "array" => queue = <<>>
  /\ loadQueueWarns(queueFile) <=> queueFile.kind = "corrupt"

\* C28: when the constructor returns the queue holds exactly the entries of
\* the queue file that are less than 24 hours old, in file order; a missing
\* file, a file that is not a JSON array and a file that cannot be parsed give
\* an empty queue, and only the unparsable file raises a warning.  The file is
\* read at construction only: every later change of the file is a write of
\* the in-memory queue
C28_LoadedQueue ==
  /\ LoadedAtConstruction
  /\ [][queueFile' # queueFile => queueFile' = serialize(queue', entries')]_vars

\* a two-entry file whose first entry is exactly 24 hours old and whose second
\* is fresh: only the second is loaded
C28_Witness ==
  /\ queueFile.kind = "array" /\ Len(queueFile.items) = 2
  /\ queueFile.items[1].timestamp = now - DayMs
  /\ queueFile.items[2].timestamp = now
  /\ queue = <<2>> /\ nextId = 3 /\ evicted = {} /\ ~isProcessing
  /\ \A id \in DOMAIN sent : sent[id] = 0

\* ------------------------------------------------ OfflineQueue.saveQueue
\* the step in which drainer p's processQueue() or flush() finishes
DrainEnds(p) == drains[p].pc = "awaiting" /\ drains'[p].pc = "idle"

\* the ids the finishing drain of p has delivered or dropped
goneIn(p) ==
  LET d == drains[p]
      id == d.items[d.idx] IN
  d.successfulIds \cup
    (IF entries'[id].attempts = entries[id].attempts \/
        dropsAfter(entries'[id].attempts, oqOptions) THEN {id} ELSE {})

\* C29: when the queue file cannot be written, enqueue, clearQueue,
\* processQueue and flush do not throw, leave the file as it was and leave the
\* queue and the isProcessing flag exactly as a successful write would:
\* enqueue appends (and evicts the oldest entry on overflow), clearQueue
\* empties the queue, a finished drain removes what it delivered or dropped
\* and clears isProcessing
C29_WriteFailureHarmless ==
  /\ [](~diskWritable => ~saveQueue(queue, entries, queueFile, diskWritable).threw)
  /\ [](~diskWritable => (isProcessing <=> InFlight # {}))
  /\ [][~diskWritable =>
          /\ queueFile' = queueFile
          /\ nextId' # nextId => queue' = enqueue(queue, nextId, oqOptions)
          /\ (nextId' = nextId /\ evicted' # evicted) => queue' = <<>>
          /\ \A p \in Drainers :
               DrainEnds(p) => /\ queue' = Without(queue, goneIn(p))
                               /\ ~isProcessing']_vars

\* with an unwritable disk: one entry was enqueued on top of a loaded one, a
\* drain delivered the first and kept the second, and the file still has its
\* original content
C29_Witness ==
  /\ ~diskWritable
  /\ queueFile.kind = "array" /\ Len(queueFile.items) = 1
  /\ nextId = 3 /\ queue = <<2>> /\ sent[1] = 1 /\ sent[2] = 1 /\ evicted = {}
  /\ entries[2].attempts = 1
  /\ ~isProcessing /\ InFlight = {}

\* ------------------------------------------------ transport rate window
\* the reports for which the reporter has started a transport attempt
handedToTransport == {r \in Reports : rep[r].calls > 0}

\* C30: with rate limiting enabled the reporter starts transport attempts for
\* at most maxRequests new reports within one window of windowMs, here the
\* window that opens at construction, whether the earlier sends succeeded or
\* failed
C30_AttemptsBoundedPerWindow ==
  (config.enableRateLimit /\ now < rlOptions.windowMs) =>
    Cardinality(handedToTransport) <= (IF rlOptions.maxRequests > 0 THEN rlOptions.maxRequests ELSE 0)

\* ------------------------------------------- CircuitBreaker: call timeout
\* options.timeout, scaled
MaxCallTimeout == 2

callIdleT == [pc |-> "idle", trial |-> FALSE, result |-> "none", started |-> 0]

CBTInit ==
  /\ now = 0
  /\ cb = cbInitial
  /\ cbOptions \in [failureThreshold : {1, MaxThreshold}, resetTimeout : {MaxResetTimeout},
                    timeout : {1, MaxCallTimeout}]
  /\ calls = [c \in Callers |-> callIdleT]
  /\ consecFailures = 0
  /\ OQUnused
  /\ RepUnused

\* the timer of createTimeoutPromise() of caller c's call is due
timeoutDue(c) == calls[c].pc = "pending" /\ now - calls[c].started >= cbOptions.timeout

\* time passes; a timer that is due fires before the clock moves on
CBTTick ==
  /\ now < MaxTime
  /\ \A c \in Callers : ~timeoutDue(c)
  /\ now' = now + 1
  /\ UNCHANGED <<cbVars, oqVars, repVars>>

\* execute(fn) up to Promise.race([fn(), this.createTimeoutPromise()])
ExecuteT(c) ==
  /\ calls[c].pc = "idle"
  /\ LET e == executeEntry(cb, cbOptions, now) IN
     /\ cb' = e.cb
     /\ calls' = [calls EXCEPT ![c] =
          IF e.invoke
          THEN [pc |-> "pending", trial |-> e.trial, result |-> "none", started |-> now]
          ELSE [pc |-> "done", trial |-> FALSE, result |-> "open", started |-> now]]
  /\ UNCHANGED <<now, cbOptions, consecFailures, oqVars, repVars>>

\* fn() settles first and wins the race
FnSettles(c, ok) ==
  /\ calls[c].pc = "pending"
  /\ cb' = executeSettle(cb, cbOptions, now, ok)
  /\ calls' = [calls EXCEPT ![c] =
                 [@ EXCEPT !.pc = "done", !.result = IF ok THEN "ok" ELSE "error"]]
  /\ UNCHANGED <<now, cbOptions, consecFailures, oqVars, repVars>>

\* mutant: a timeout rejects execute() without being accounted
timeoutRejection_unaccounted(b, opts, t) == b

\* the timeout promise rejects the race: the catch block of execute()
timeoutRejection(b, opts, t) == recordFailure(b, opts, t)

\* the timer fires while fn() is still pending; what fn() does later is
\* ignored by the settled race
TimeoutWins(c) ==
  /\ timeoutDue(c)
  /\ cb' = timeoutRejection(cb, cbOptions, now)
  /\ calls' = [calls EXCEPT ![c] = [@ EXCEPT !.pc = "done", !.result = "timeout"]]
  /\ UNCHANGED <<now, cbOptions, consecFailures, oqVars, repVars>>

ReturnT(c) ==
  /\ calls[c].pc = "done"
  /\ calls' = [calls EXCEPT ![c] = callIdleT]
  /\ UNCHANGED <<now, cb, cbOptions, consecFailures, oqVars, repVars>>

CBTNext ==
  \/ CBTTick
  \/ \E c \in Callers : ExecuteT(c)
  \/ \E c \in Callers, ok \in BOOLEAN : FnSettles(c, ok)
  \/ \E c \in Callers : TimeoutWins(c)
  \/ \E c \in Callers : ReturnT(c)

SpecCBT == CBTInit /\ [][CBTNext]_vars

\* C31: a wrapped call is never awaited past the timeout; when the timeout
\* elapses with the call unsettled, execute rejects with the timeout error and
\* the breaker accounts it exactly like a call error: failureCount + 1,
\* lastFailureTime = now, OPEN once failureCount >= failureThreshold
C31_TimeoutCountsAsFailure ==
  /\ [](\A c \in Callers :
          calls[c].pc = "pending" => now - calls[c].started <= cbOptions.timeout)
  /\ [][\A c \in Callers :
          (Settles(c) /\ calls'[c].result = "timeout") =>
            /\ now - calls[c].started = cbOptions.timeout
            /\ cb' = executeSettle(cb, cbOptions, now, FALSE)
            /\ cb'.failureCount = cb.failureCount + 1
            /\ cb'.lastFailureTime = now
            /\ cb'.state = IF cb'.failureCount >= cbOptions.failureThreshold
                           THEN "OPEN" ELSE cb.state]_vars

\* the second of two timeouts reaches failureThreshold = 2 and opens the breaker
C31_Witness ==
  /\ cbOptions.failureThreshold = 2
  /\ \E c \in Callers : calls[c].pc = "done" /\ calls[c].result = "timeout"
  /\ cb.state = "OPEN" /\ cb.failureCount = 2 /\ cb.lastFailureTime = now

\* -------------------------------------------- CircuitBreaker: single trial
\* the HALF_OPEN trial call is still pending
TrialPending == \E d \in Callers : calls[d].pc = "pending" /\ calls[d].trial

\* C32: while the breaker is HALF_OPEN and its trial call is pending, an
\* execute issued by another caller is not passed to the wrapped function
C32_SingleTrial ==
  [][\A c \in Callers :
       (Issues(c) /\ cb.state = "HALF_OPEN" /\ TrialPending)
         => calls'[c].pc # "pending"]_vars

\* ------------------------------------------------ BatchManager: the timer
\* updateConfig({ batchSize: n }): the configuration is merged, the batch and
\* the timer are not looked at
UpdateConfig(n) ==
  /\ n # batch.batchSize
  /\ batch' = [batch EXCEPT !.batchSize = n]
  /\ UNCHANGED <<bmFrame, sending, sends>>

\* the BatchManager with its configuration updated while it runs
BMCNext ==
  \/ BMNext
  \/ \E n \in 1..MaxBatchSize : UpdateConfig(n)

SpecBMC == BMInit /\ [][BMCNext]_vars

\* C33: after every BatchManager operation a flush timer is armed iff
\* currentBatch is non-empty and shorter than batchSize
C33_TimerIffPartialBatch ==
  (batch.batchTimeout = "armed") <=>
    (Len(batch.currentBatch) > 0 /\ Len(batch.currentBatch) < batch.batchSize)

\* ------------------------------------------------ BatchManager: chunking
RECURSIVE Concat(_)
Concat(chunks) == IF Len(chunks) = 0 THEN <<>> ELSE Head(chunks) \o Concat(Tail(chunks))

\* the flush() calls this step starts or moves on
Started == sending' \ sending

\* the flush() calls this step starts
NewFlushes == {p \in Started : p.idx = 1 /\ p.pc = "sending"}

\* the chunked flush() calls this step moves on or ends
Moved == {p \in sending : p.chunked /\ p \notin sending'}

\* C34: a chunked flush splits the whole batch: the chunks, concatenated in
\* order, are the flushed batch and none is empty; the chunks are handed to
\* the send function one by one in that order, and only a failed send ends
\* the flush before the last chunk
C34_ChunksPartitionBatch ==
  [][/\ \A p \in NewFlushes :
          p.chunked =>
            /\ Concat(p.chunks) =
                 (IF AddStep
                  THEN Append(batch.currentBatch,
                              Concat(p.chunks)[Len(Concat(p.chunks))])
                  ELSE batch.currentBatch)
            /\ AddStep => Concat(p.chunks)[Len(Concat(p.chunks))].id = batch'.totalErrors
            /\ \A i \in 1..Len(p.chunks) : Len(p.chunks[i]) > 0
            /\ sends'[p.call].batch = p.chunks[1]
     /\ \A p \in Moved :
          \/ sends'[p.call].result = "failed"
          \/ \E q \in Started :
               /\ q.chunks = p.chunks
               /\ q.idx = IF p.pc = "sleeping" THEN p.idx + 1 ELSE p.idx
               /\ q.pc = "sending" => sends'[q.call].batch = q.chunks[q.idx]
          \/ p.idx = Len(p.chunks) /\ (p.pc = "sleeping" \/ Len(p.chunks) = 1)]_vars

\* a batch of two reports was split and both chunks were sent successfully,
\* the first report first
C34_Witness ==
  /\ sending = {}
  /\ Len(sends) = 2
  /\ sends[1].chunked /\ sends[2].chunked
  /\ sends[1].result = "ok" /\ sends[2].result = "ok"
  /\ sends[1].batch = <<[id |-> 1, size |-> 4]>>
  /\ sends[2].batch = <<[id |-> 2, size |-> 4]>>

\* ---------------------------------------------------------------------------
\* RetryManager statistics: a sequence of executeWithRetry and
\* executeWithCallback calls on one manager, each finished before the next
\* ---------------------------------------------------------------------------
MaxOps == 3

\* averageAttempts is kept as the fraction the code divides
statsInitial ==
  [totalAttempts |-> 0, successfulRetries |-> 0, failedRetries |-> 0,
   averageAttempts |-> [num |-> 0, den |-> 1]]

\* updateAverageAttempts()
updateAverageAttempts(stats) ==
  LET totalOperations == stats.successfulRetries + stats.failedRetries IN
  IF totalOperations > 0
  THEN [stats EXCEPT !.averageAttempts = [num |-> stats.totalAttempts,
                                          den |-> totalOperations]]
  ELSE stats

\* the catch block of executeWithCallback after `attempt` failures, below
\* maxAttempts: an onRetry that throws ends the call with its error
onRetryOutcome(onRetry) == IF onRetry = "throws" THEN "throw" ELSE "sleep"

\* history of the calls made: invocations of the operations, calls completed,
\* calls that succeeded after a failed attempt, calls that used up
\* maxAttempts, and how the last call ended
statHistoryInitial ==
  [invocations |-> 0, completed |-> 0, retried |-> 0, exhausted |-> 0,
   last |-> "none", thrown |-> "none"]

RSInit ==
  /\ now = 0
  /\ CBUnused
  /\ OQUnused
  /\ reporter = "none" /\ config = <<>> /\ rlOptions = <<>> /\ requests = <<>>
  /\ quotaConfig = <<>> /\ quota = <<>> /\ batch = <<>>
  /\ sending = {} /\ rep = <<>> /\ sends = <<>> /\ cleared = {}
  /\ recorded = <<>> /\ dailyResetInterval = 0
  /\ retryConfig \in [maxAttempts : 1..MaxAttempts]
  /\ retry = [pc |-> "idle", method |-> "none", onRetry |-> "none", attempt |-> 0,
              stats |-> statsInitial, history |-> statHistoryInitial]

\* executeWithRetry(operation) or executeWithCallback(operation, onRetry) is
\* called and enters the loop
StatCall(method, onRetry) ==
  /\ retry.pc = "idle"
  /\ retry.history.completed < MaxOps
  /\ method = "executeWithRetry" => onRetry = "none"
  /\ retry' = [retry EXCEPT !.pc = "operation", !.method = method, !.onRetry = onRetry,
                            !.attempt = 0]
  /\ UNCHANGED rmFrame

\* the call returns or throws: pc, and the history of completed calls
finished(r, stats, how, thrown) ==
  [r EXCEPT !.pc = "idle", !.stats = stats,
            !.history = [@ EXCEPT !.completed = @ + 1, !.last = how, !.thrown = thrown,
                                  !.retried = @ + (IF how = "resolved" /\ r.attempt > 0
                                                   THEN 1 ELSE 0),
                                  !.exhausted = @ + (IF thrown = "operation" THEN 1 ELSE 0)]]

\* totalAttempts++ and the awaited operation() settles
StatOperationSettles(ok) ==
  /\ retry.pc = "operation"
  /\ LET counted == [retry.stats EXCEPT !.totalAttempts = @ + 1]
         invoked == [retry EXCEPT !.history.invocations = @ + 1]
     IN IF ok
        THEN LET s1 == IF retry.attempt > 0
                       THEN [counted EXCEPT !.successfulRetries = @ + 1] ELSE counted
             IN retry' = finished(invoked, updateAverageAttempts(s1), "resolved", "none")
        ELSE LET failedOnce == [invoked EXCEPT !.attempt = @ + 1] IN
             IF failedOnce.attempt >= retryConfig.maxAttempts
             THEN retry' = finished(failedOnce,
                                    updateAverageAttempts(
                                      [counted EXCEPT !.failedRetries = @ + 1]),
                                    "rejected", "operation")
             ELSE IF retry.method = "executeWithCallback"
                     /\ onRetryOutcome(retry.onRetry) = "throw"
             THEN retry' = finished(failedOnce, counted, "rejected", "callback")
             ELSE retry' = [failedOnce EXCEPT !.pc = "sleeping", !.stats = counted]
  /\ UNCHANGED rmFrame

\* the backoff sleep ends: the next iteration of the loop
StatSleepEnds ==
  /\ retry.pc = "sleeping"
  /\ retry' = [retry EXCEPT !.pc = "operation"]
  /\ UNCHANGED rmFrame

RSNext ==
  \/ \E onRetry \in {"none"} : StatCall("executeWithRetry", onRetry)
  \/ \E onRetry \in {"none", "returns", "throws"} : StatCall("executeWithCallback", onRetry)
  \/ \E ok \in BOOLEAN : StatOperationSettles(ok)
  \/ StatSleepEnds

SpecRS == RSInit /\ [][RSNext]_vars

\* C35: between calls getStats() gives totalAttempts = the operation
\* invocations made, successfulRetries = the calls that succeeded after a
\* failed attempt, failedRetries = the calls that used up maxAttempts, and
\* averageAttempts = totalAttempts / the number of completed calls
C35_StatsExact ==
  (retry.pc = "idle" /\ retry.history.completed > 0) =>
    /\ retry.stats.totalAttempts = retry.history.invocations
    /\ retry.stats.successfulRetries = retry.history.retried
    /\ retry.stats.failedRetries = retry.history.exhausted
    /\ retry.stats.averageAttempts.num * retry.history.completed
         = retry.stats.totalAttempts * retry.stats.averageAttempts.den

\* C36: in executeWithCallback an onRetry that throws does not end the call:
\* after a failed attempt below maxAttempts the loop sleeps and tries again
C36_ThrowingCallbackIgnored ==
  [][(/\ retry.pc = "operation"
      /\ retry.method = "executeWithCallback" /\ retry.onRetry = "throws"
      /\ retry'.attempt = retry.attempt + 1
      /\ retry'.attempt < retryConfig.maxAttempts)
       => retry'.pc = "sleeping"]_vars

\* ------------------------------------------------ QuotaManager: the frame
\* the step is a recordUsage call, the daily timer's callback, the clock
RecordStep == Len(recorded') = Len(recorded) + 1
TimerStep == dailyResetInterval' # dailyResetInterval
ClockStep == now' # now

\* the counters an operation at this instant starts from: zero after a date
\* or month rollover it detects, the current value otherwise
dailyBase == IF getDateKey(now) # quota.lastResetDate THEN 0 ELSE quota.dailyCount
monthlyBase == IF getMonthKey(now) # quota.lastResetMonth THEN 0 ELSE quota.monthlyCount

\* the burst timestamps that are within the last burstWindowMs
burstInWindow ==
  SelectSeq(quota.burstTimestamps, LAMBDA ts : now - ts < quotaConfig.burstWindowMs)

exhausted ==
  {id \in DOMAIN entries :
     id \notin Range(queue) /\ id \notin evicted /\ entries[id].attempts >= oqOptions.maxRetries}

\* the step in which the sender's promise for the entry in hand settles without
\* a post having been made: the breaker rejected the call
FastFailedSettle(p) ==
  drains[p].pc = "awaiting" /\ calls.pc = "rejected" /\ drains'[p] # drains[p]

\* C38: an entry is only dropped for retry exhaustion after maxRetries posts
\* were made for it, and a replay that the OPEN breaker fails fast leaves the
\* entry's attempts as they were
C38_AttemptsCountPosts ==
  /\ [](calls.posts >= oqOptions.maxRetries * Cardinality(exhausted))
  /\ [][\A p \in Drainers :
          FastFailedSettle(p) =>
            LET id == drains[p].items[drains[p].idx] IN
            entries'[id].attempts = entries[id].attempts]_vars

\* ------------------------------------------------ OfflineQueue: the bound
\* C39: in every state after construction, a queue loaded from an existing
\* file included, getQueueSize() <= maxQueueSize
C39_QueueBounded == Len(queue) <= oqOptions.maxQueueSize

\* -------------------------------------- OfflineQueue: enqueue during a drain
\* the reports that entered the queue after drainer p copied it
lateFor(p) == Range(queue) \ Range(drains[p].items)

\* a step of drainer p's processQueue() or flush() after an await
DrainStep(p) == drains[p].pc = "awaiting" /\ drains'[p] # drains[p]

fileIds(file) == {file.items[i].id : i \in 1..Len(file.items)}

\* C40: a report enqueued while a drain is awaiting the sender is not handed
\* to the sender by that drain, is not removed by that drain's filtering, and
\* is in the queue, and in the file the drain rewrites, when the drain
\* completes (unless an overflow evicted it meanwhile)
C40_LateEnqueueSurvivesDrain ==
  [][\A p \in Drainers :
       DrainStep(p) =>
         \A id \in lateFor(p) :
           /\ id \in Range(queue')
           /\ sent'[id] = sent[id]
           /\ drains'[p].pc = "awaiting" => id \notin Range(drains'[p].sentTo)
           /\ (DrainEnds(p) /\ diskWritable) => id \in fileIds(queueFile')]_vars

\* a processQueue() drain is awaiting the sender for the only entry of its
\* copy while a second report, enqueued meanwhile, is in the queue and the file
C40_Witness ==
  \E p \in Drainers :
    /\ drains[p].pc = "awaiting" /\ drains[p].kind = "processQueue"
    /\ drains[p].items = <<1>> /\ drains[p].sentTo = <<1>>
    /\ queue = <<1, 2>> /\ lateFor(p) = {2} /\ sent[2] = 0
    /\ diskWritable /\ fileIds(queueFile) = {1, 2}

====
